---- MODULE Spec2Model ----
(***************************************************************************)
(* Unravel HPSS core: the STFT engine (STFTProcessor and its RingBuffer)   *)
(* and the HPSS coordinator (HPSSProcessor).                               *)
(*                                                                         *)
(* Sizes are in units of 128 audio samples: the 1024/256 configuration is  *)
(* 8/2, the 2048/512 configuration is 16/4, a 512-sample host block is 4.  *)
(* All size relations of the code (ring = 4*fftSize, latency = fftSize -   *)
(* hopSize, overlap factor 4) are kept.                                    *)
(*                                                                         *)
(* Audio samples are symbolic.  An input sample is <<epoch, p>>: the p-th  *)
(* sample (p >= 1) pushed since the last prepare()/reset(), epoch telling  *)
(* the streams before and after a reset apart.  The float 0.0f is Zero.    *)
(* The forward and inverse FFT are exact inverses of each other, so a      *)
(* spectral frame is represented by the windowed time-domain samples it    *)
(* was computed from; what the inverse transform overlap-adds into an      *)
(* output slot is a set of contributions, one per frame and window index.  *)
(***************************************************************************)
EXTENDS Integers, Sequences, FiniteSets, TLC

VARIABLES stft, pc, bs, epoch, out, fullSeen, hp, pos, lastPath, gains,
          changes, hist, mpf, est, monitor, proc, plugin, lim, gui

\* ------------------------------------------------------------------ bounds
\* largest host block size handed to prepare(), in units of 128 samples
MaxBlockSize == 32
\* longest input stream explored after a prepare()/reset()
MaxStream == 96
\* longest stream the coordinator is driven through after prepare()/reset()
MaxPos == 15
\* number of reset() calls on the engine explored in one behaviour
MaxResets == 1
\* number of host events between blocks (gain change, bypass toggle, reset)
\* explored in one behaviour of the coordinator
MaxChanges == 2

\* largest numBins a MagPhaseFrame is prepared with
MaxBins == 2
\* largest |re|, |im| of a complex bin, in units of epsilon/2
MaxAmp == 3

\* numBins a MaskEstimator is prepared with
NumBins == 4
\* magnitude frames fed to a MaskEstimator in one behaviour
MaxFrames == 5
\* updateGuides calls on a MaskEstimator in one behaviour of the history ring
MaxGuides == 12
\* calls other than processBlock made on an HPSSProcessor in one behaviour
MaxCalls == 3
\* longest input stream fed to that HPSSProcessor after prepare()/reset()
MaxQualityPos == 20
\* blocks the audio thread processes next to the spectrum display
MaxViewBlocks == 3
\* the largest magnitude fed to a MaskEstimator, and the largest finite float
\* of the mask arithmetic, both in units of sqrt(eps); Huge * Huge > FltMax
Huge == 30
FltMax == 500

\* ---------------------------------------------------------- configuration
LowLatency == [fftSize |-> 1024 \div 128, hopSize |-> 256 \div 128]
HighQuality == [fftSize |-> 2048 \div 128, hopSize |-> 512 \div 128]
Configs == {LowLatency, HighQuality}

GetLatencyInSamples(cfg) == cfg.fftSize - cfg.hopSize
RingSize(cfg) == cfg.fftSize * 4

Zero == <<0, 0>>
\* 1.0f in the fixed-point representation of gains
Unity == 840
Min(a, b) == IF a <= b THEN a ELSE b

\* ------------------------------------------------------------- RingBuffer
\* data_ is kept twice (mirror) by every writer; the model keeps one copy
\* and reads wrap-aware, which is what the mirror provides.

\* write(): slot by slot, later samples overwrite earlier ones on a lap
RingWrite(data, writePos, size, samples) ==
    [j \in 0 .. size - 1 |->
        LET hits == {i \in 1 .. Len(samples) : (writePos + i - 1) % size = j}
        IN  IF hits = {} THEN data[j]
            ELSE samples[CHOOSE i \in hits : \A h \in hits : h <= i]]

\* read(): numSamples contiguous samples from readPos_ + offset
RingRead(data, readPos, size, numSamples) ==
    [i \in 1 .. numSamples |-> data[(readPos + i - 1) % size]]

\* readAndClear() that leaves the slots it read as they were
RingReadWithoutClear(data, readPos, size, numSamples, zero) == data

\* readAndClear(): the data part (zeroing of the slots read)
RingClearRead(data, readPos, size, numSamples, zero) ==
    [j \in 0 .. size - 1 |->
        IF \E i \in 0 .. numSamples - 1 : (readPos + i) % size = j
        THEN zero ELSE data[j]]

\* overlapAdd(): data_[pos] += input[i]
RingOverlapAdd(data, writePos, size, parts) ==
    [j \in 0 .. size - 1 |->
        data[j] \cup UNION {parts[i] : i \in {h \in 1 .. Len(parts) :
                                               (writePos + h - 1) % size = j}}]

GetReadableDistance(writePos, readPos, size) ==
    IF writePos >= readPos THEN writePos - readPos
    ELSE size - readPos + writePos

\* ---------------------------------------------------------- STFTProcessor
ZeroFrame(cfg) == [k |-> 0, win |-> [i \in 1 .. cfg.fftSize |-> Zero]]

\* prepare(): fresh rings, counters and flags
StftPrepare(cfg) ==
    [cfg |-> cfg,
     inData |-> [j \in 0 .. RingSize(cfg) - 1 |-> Zero],
     inWrite |-> 0, inRead |-> 0,
     outData |-> [j \in 0 .. RingSize(cfg) - 1 |-> {}],
     outWrite |-> 0, outRead |-> 0,
     samplesInInputBuffer |-> 0,
     samplesInOutputBuffer |-> 0,
     frameReady |-> FALSE,
     isFirstFrame |-> TRUE,
     currentFrame |-> ZeroFrame(cfg),
     \* observation counters since prepare()/reset(), not program state
     pushed |-> 0, frames |-> 0, synths |-> 0, extracted |-> 0, padded |-> 0]

StftReset(s) == StftPrepare(s.cfg)

\* processForwardTransform(): window read at the read cursor
ProcessForwardTransform(s) ==
    [k |-> s.frames,
     win |-> RingRead(s.inData, s.inRead, RingSize(s.cfg), s.cfg.fftSize)]

\* pushAndProcess without the early return on a pending frame
FrameGuardIgnored(s) == TRUE

\* if (frameReady_.load()) return;
FrameGuardOpen(s) == ~s.frameReady

PushAndProcess(s, samples) ==
    LET size == RingSize(s.cfg)
        n == Len(samples)
        w == [s EXCEPT !.inData = RingWrite(s.inData, s.inWrite, size, samples),
                       !.inWrite = (s.inWrite + n) % size,
                       !.samplesInInputBuffer = @ + n,
                       !.pushed = @ + n]
        samplesNeeded == IF w.isFirstFrame THEN w.cfg.fftSize ELSE w.cfg.hopSize
    IN  IF w.samplesInInputBuffer >= samplesNeeded
           /\ FrameGuardOpen(w)
           /\ GetReadableDistance(w.inWrite, w.inRead, size) >= w.cfg.fftSize
        THEN [w EXCEPT !.currentFrame = ProcessForwardTransform(w),
                       !.samplesInInputBuffer = @ - w.cfg.hopSize,
                       !.isFirstFrame = FALSE,
                       !.frameReady = TRUE,
                       !.inRead = (@ + w.cfg.hopSize) % size,
                       !.frames = @ + 1]
        ELSE w

\* processInverseTransform(): contributions of one frame, per window index
FrameParts(frame, tg, ng) ==
    [i \in 1 .. Len(frame.win) |->
        IF frame.win[i] = Zero THEN {}
        ELSE {[k |-> frame.k, idx |-> i, src |-> frame.win[i],
               tg |-> tg, ng |-> ng]}]

SetCurrentFrame(s, frame, tg, ng) ==
    LET size == RingSize(s.cfg)
    IN  [s EXCEPT !.currentFrame = frame,
                  !.outData = RingOverlapAdd(s.outData, s.outWrite, size,
                                             FrameParts(frame, tg, ng)),
                  !.outWrite = (@ + s.cfg.hopSize) % size,
                  !.samplesInOutputBuffer = @ + s.cfg.hopSize,
                  !.frameReady = FALSE,
                  !.synths = @ + 1]

SamplesToExtract(s, numSamples) == Min(numSamples, s.samplesInOutputBuffer)

\* processOutput(): the samples returned
ProcessOutputSamples(s, numSamples) ==
    LET x == SamplesToExtract(s, numSamples)
    IN  [i \in 1 .. numSamples |->
            IF i <= x THEN s.outData[(s.outRead + i - 1) % RingSize(s.cfg)]
            ELSE {}]

\* processOutput() that leaves samplesInOutputBuffer_ as it was
ProcessOutputKeepsCounter(s, numSamples) ==
    LET x == SamplesToExtract(s, numSamples)
        size == RingSize(s.cfg)
    IN  [s EXCEPT !.outData = RingClearRead(s.outData, s.outRead, size, x, {}),
                  !.outRead = (@ + x) % size,
                  !.extracted = @ + x,
                  !.padded = @ + (numSamples - x)]

\* processOutput(): the engine afterwards
ProcessOutput(s, numSamples) ==
    LET x == SamplesToExtract(s, numSamples)
        size == RingSize(s.cfg)
    IN  [s EXCEPT !.outData = RingClearRead(s.outData, s.outRead, size, x, {}),
                  !.outRead = (@ + x) % size,
                  !.samplesInOutputBuffer = @ - x,
                  !.extracted = @ + x,
                  !.padded = @ + (numSamples - x)]

\* ---------------------------------------------------- juce::SmoothedValue
\* Linear smoother; values are fixed-point with Unity = 1.0f.
\* skipped: samples the smoother was advanced by since prepare()/reset(), an
\* observation counter and not program state
SmoothedValueNew ==
    [currentValue |-> 0, target |-> 0, step |-> 0, countdown |-> 0,
     stepsToTarget |-> 0, skipped |-> 0]

\* reset(sampleRate, 0.02): floor(0.02 * sampleRate) steps, and
\* setCurrentAndTargetValue(target)
SmoothedReset(sm, sampleRate) ==
    [sm EXCEPT !.stepsToTarget = (2 * sampleRate) \div 100,
               !.currentValue = sm.target,
               !.countdown = 0,
               !.skipped = 0]

SetTargetValue(sm, newValue) ==
    IF newValue = sm.target THEN sm
    ELSE IF sm.stepsToTarget <= 0
         THEN [sm EXCEPT !.target = newValue, !.currentValue = newValue,
                         !.countdown = 0]
         ELSE [sm EXCEPT !.target = newValue,
                         !.countdown = sm.stepsToTarget,
                         !.step = (newValue - sm.currentValue) \div sm.stepsToTarget]

Skip(sm, numSamples) ==
    IF numSamples >= sm.countdown
    THEN [sm EXCEPT !.currentValue = sm.target, !.countdown = 0,
                    !.skipped = @ + numSamples]
    ELSE [sm EXCEPT !.currentValue = @ + sm.step * numSamples,
                    !.countdown = @ - numSamples,
                    !.skipped = @ + numSamples]

\* ---------------------------------------------------------- MagPhaseFrame
\* A complex bin is [re, im] with integer parts in units of kEpsilon/2; the
\* bins used lie on the real or the imaginary axis, where hypot, atan2, cos
\* and sin are exact; a phase is a number of quarter turns in -1 .. 2.
Epsilon == 2
\* kDenormalThreshold (1e-30f) lies below the resolution epsilon/2: only an
\* exact zero is below it
DenormalThreshold == 1
Abs(x) == IF x < 0 THEN -x ELSE x
ComplexZero == [re |-> 0, im |-> 0]

\* std::hypot
Hypot(re, im) ==
    CHOOSE m \in 0 .. Abs(re) + Abs(im) :
        m * m <= re * re + im * im /\ re * re + im * im < (m + 1) * (m + 1)

\* std::atan2(imag, real), in quarter turns
Atan2(im, re) ==
    CASE im = 0 /\ re >= 0 -> 0
      [] im = 0 /\ re < 0 -> 2
      [] re = 0 /\ im > 0 -> 1
      [] re = 0 /\ im < 0 -> -1

Cos(phase) == CASE phase = 0 -> 1 [] phase = 2 -> -1 [] OTHER -> 0
Sin(phase) == CASE phase = 1 -> 1 [] phase = -1 -> -1 [] OTHER -> 0

\* complexToMagPhase with the phase left at zero
ComplexToMagPhaseNoPhase(c) ==
    IF Hypot(c.re, c.im) > Epsilon
    THEN [mag |-> Hypot(c.re, c.im), phase |-> 0]
    ELSE [mag |-> 0, phase |-> 0]

ComplexToMagPhase(c) ==
    IF Hypot(c.re, c.im) > Epsilon
    THEN [mag |-> Hypot(c.re, c.im), phase |-> Atan2(c.im, c.re)]
    ELSE [mag |-> 0, phase |-> 0]

MagPhaseToComplex(magnitude, phase) ==
    IF magnitude < Epsilon THEN ComplexZero
    ELSE [re |-> magnitude * Cos(phase), im |-> magnitude * Sin(phase)]

FlushDenormals(data) ==
    [i \in DOMAIN data |-> IF Abs(data[i]) < DenormalThreshold THEN 0 ELSE data[i]]

\* a default-constructed frame: empty storage
MpfNew == [magnitudeData |-> <<>>, phaseData |-> <<>>]
GetNumBins(f) == Len(f.magnitudeData)
IsPrepared(f) == f.magnitudeData /= <<>>

\* the outcome of a call is "ok" or the exception it left with
EnsurePrepared(f) == IF IsPrepared(f) THEN "ok" ELSE "runtime_error"
ValidateSpanSize(f, spanSize) ==
    IF spanSize /= GetNumBins(f) THEN "invalid_argument" ELSE "ok"

\* each operation: the frame afterwards, the caller's span afterwards, outcome
MpfPrepare(f, numBins) ==
    IF numBins <= 0 THEN [frame |-> f, outcome |-> "invalid_argument"]
    ELSE [frame |-> [magnitudeData |-> [i \in 1 .. numBins |-> 0],
                     phaseData |-> [i \in 1 .. numBins |-> 0]],
          outcome |-> "ok"]

FromComplex(f, complex) ==
    IF EnsurePrepared(f) /= "ok"
    THEN [frame |-> f, outcome |-> EnsurePrepared(f)]
    ELSE IF ValidateSpanSize(f, Len(complex)) /= "ok"
    THEN [frame |-> f, outcome |-> ValidateSpanSize(f, Len(complex))]
    ELSE [frame |->
             [magnitudeData |-> FlushDenormals(
                  [i \in 1 .. GetNumBins(f) |-> ComplexToMagPhase(complex[i]).mag]),
              phaseData |-> FlushDenormals(
                  [i \in 1 .. GetNumBins(f) |-> ComplexToMagPhase(complex[i]).phase])],
          outcome |-> "ok"]

ToComplex(f, complex) ==
    IF EnsurePrepared(f) /= "ok"
    THEN [span |-> complex, outcome |-> EnsurePrepared(f)]
    ELSE IF ValidateSpanSize(f, Len(complex)) /= "ok"
    THEN [span |-> complex, outcome |-> ValidateSpanSize(f, Len(complex))]
    ELSE [span |-> [i \in 1 .. GetNumBins(f) |->
                       MagPhaseToComplex(f.magnitudeData[i], f.phaseData[i])],
          outcome |-> "ok"]

MpfReset(f) ==
    IF IsPrepared(f)
    THEN [magnitudeData |-> [i \in 1 .. GetNumBins(f) |-> 0],
          phaseData |-> [i \in 1 .. GetNumBins(f) |-> 0]]
    ELSE f

GetMagnitudes(f) == EnsurePrepared(f)

CopyFrom(f, other) ==
    IF ~IsPrepared(f) \/ ~IsPrepared(other)
    THEN [frame |-> f, outcome |-> "invalid_argument"]
    ELSE IF GetNumBins(f) /= GetNumBins(other)
    THEN [frame |-> f, outcome |-> "invalid_argument"]
    ELSE [frame |-> other, outcome |-> "ok"]

ApplyGain(f, gain) ==
    IF ~IsPrepared(f) THEN f
    ELSE [f EXCEPT !.magnitudeData =
              [i \in 1 .. GetNumBins(f) |-> f.magnitudeData[i] * gain]]

\* ---------------------------------------------------------- MaskEstimator
\* Only the frame-to-frame bookkeeping: a magnitude frame is identified by
\* the first sample of the window it was computed from.
HorizontalMedianSize == 9

MaskPrepare ==
    [history |-> [j \in 0 .. HorizontalMedianSize - 1 |-> Zero],
     historyWriteIndex |-> 0,
     previousMagnitudes |-> Zero]

MaskUpdate(m, frame) ==
    [m EXCEPT !.history[m.historyWriteIndex] = frame.win[1],
              !.historyWriteIndex = (@ + 1) % HorizontalMedianSize,
              !.previousMagnitudes = frame.win[1]]

\* ------------------------------------------- MaskEstimator, the arithmetic
\* Masks, flux, flatness, focus and floor are fixed-point with One for 1.0f;
\* separation has SepOne for 1.0f.  Magnitudes are whole multiples of
\* sqrt(eps), so a power is a multiple of eps and "x > eps" on a magnitude
\* is "x > 0"; a power is kept in units of eps / PowerScale.  A float
\* operation whose result exceeds FltMax gives Inf, and Inf / Inf gives NaN;
\* rounding is towards zero on the fixed-point grid.
One == 100
SepOne == 108
PowerScale == 10
NaN == -1
Inf == -2
Eps == PowerScale
Range(s) == {s[i] : i \in DOMAIN s}
Fill(n, v) == [i \in 1 .. n |-> v]

\* std::vector::resize(n, v): elements already there keep their value
Resize(vec, n, v) == [i \in 1 .. n |-> IF i <= Len(vec) THEN vec[i] ELSE v]

\* x * x on floats, as a power
Square(x) == IF x * x > FltMax THEN Inf ELSE x * x * PowerScale

\* power * (num / den) on floats, num / den a positive finite factor
Scale(power, num, den) ==
    IF power = NaN THEN NaN
    ELSE IF power = Inf THEN Inf
    ELSE IF (power * num) \div den > FltMax * PowerScale THEN Inf
    ELSE (power * num) \div den

\* a + b on floats
Add(a, b) ==
    IF a = NaN \/ b = NaN THEN NaN
    ELSE IF a = Inf \/ b = Inf THEN Inf
    ELSE IF a + b > FltMax * PowerScale THEN Inf
    ELSE a + b

\* a / b on floats for 0 <= a <= b, b > 0, as a mask value
Ratio(a, b) ==
    IF a = NaN \/ b = NaN THEN NaN
    ELSE IF a = Inf /\ b = Inf THEN NaN
    ELSE IF b = Inf THEN 0
    ELSE (a * One) \div b

\* std::pow(x, exponent) for a whole exponent >= 1 and x in [0, 1] or NaN
RECURSIVE Pow(_, _)
Pow(x, exponent) ==
    IF x = NaN THEN NaN
    ELSE IF exponent = 1 THEN x
    ELSE (x * Pow(x, exponent - 1)) \div One

ExponentOne == 116640
\* 0.3f + t * (2.0f + t * 2.7f), in units of 1 / ExponentOne
MaskExponent(t) == 34992 + t * (2160 + t * 27)

Clamp01(value) == IF value <= 0 THEN 0 ELSE IF value >= One THEN One ELSE value
Jlimit(lo, hi, v) == IF v < lo THEN lo ELSE IF hi < v THEN hi ELSE v

\* the element at position k (from 0) of data in ascending order
NthElement(data, k) ==
    CHOOSE x \in Range(data) :
        /\ Cardinality({i \in DOMAIN data : data[i] < x}) <= k
        /\ Cardinality({i \in DOMAIN data : data[i] <= x}) > k

ComputeMedian(data) ==
    IF Len(data) <= 0 THEN 0
    ELSE IF Len(data) = 1 THEN data[1]
    ELSE IF Len(data) % 2 = 1 THEN NthElement(data, Len(data) \div 2)
    ELSE (NthElement(data, Len(data) \div 2)
              + NthElement(data, Len(data) \div 2 - 1)) \div 2

\* the largest g with g^n <= x
RECURSIVE Power(_, _)
Power(g, n) == IF n = 0 THEN 1 ELSE g * Power(g, n - 1)
Root(x, n) == CHOOSE g \in 0 .. Huge + 1 : Power(g, n) <= x /\ x < Power(g + 1, n)
RECURSIVE Product(_)
Product(s) == IF s = <<>> THEN 1 ELSE Head(s) * Product(Tail(s))
RECURSIVE Sum(_)
Sum(s) == IF s = <<>> THEN 0 ELSE Head(s) + Sum(Tail(s))

\* ---------------------------------------------- MaskEstimator, operations
\* a default-constructed estimator; bins are numbered from 1
EstNew ==
    [isInitialized |-> FALSE, numBins |-> 0,
     separationAmount |-> (3 * SepOne) \div 4, focusBias |-> 0,
     spectralFloorThreshold |-> 0,
     magnitudeHistoryData |-> [j \in 0 .. HorizontalMedianSize - 1 |-> <<>>],
     historyWriteIndex |-> 0,
     previousMagnitudes |-> <<>>,
     horizontalGuide |-> <<>>, verticalGuide |-> <<>>,
     spectralFlux |-> <<>>, spectralFlatness |-> <<>>,
     combinedMask |-> <<>>, smoothedMask |-> <<>>,
     previousSmoothedMask |-> <<>>]

EstPrepare(e, numBins) ==
    [e EXCEPT !.numBins = numBins,
              !.horizontalGuide = Resize(@, numBins, 0),
              !.verticalGuide = Resize(@, numBins, 0),
              !.spectralFlux = Resize(@, numBins, 0),
              !.spectralFlatness = Resize(@, numBins, 0),
              !.combinedMask = Resize(@, numBins, 0),
              !.smoothedMask = Resize(@, numBins, 0),
              !.previousMagnitudes = Resize(@, numBins, 0),
              !.previousSmoothedMask = Resize(@, numBins, One \div 2),
              !.magnitudeHistoryData =
                  [j \in 0 .. HorizontalMedianSize - 1 |-> Resize(@[j], numBins, 0)],
              !.historyWriteIndex = 0,
              !.isInitialized = TRUE]

\* reset() that leaves previousSmoothedMask as it is
EstResetKeepsSmoothedMask(e) ==
    IF ~e.isInitialized THEN e
    ELSE [e EXCEPT !.horizontalGuide = Fill(e.numBins, 0),
                   !.verticalGuide = Fill(e.numBins, 0),
                   !.spectralFlux = Fill(e.numBins, 0),
                   !.spectralFlatness = Fill(e.numBins, 0),
                   !.combinedMask = Fill(e.numBins, 0),
                   !.smoothedMask = Fill(e.numBins, 0),
                   !.previousMagnitudes = Fill(e.numBins, 0),
                   !.magnitudeHistoryData =
                       [j \in 0 .. HorizontalMedianSize - 1 |-> Fill(e.numBins, 0)],
                   !.historyWriteIndex = 0]

EstReset(e) ==
    IF ~e.isInitialized THEN e
    ELSE [e EXCEPT !.horizontalGuide = Fill(e.numBins, 0),
                   !.verticalGuide = Fill(e.numBins, 0),
                   !.spectralFlux = Fill(e.numBins, 0),
                   !.spectralFlatness = Fill(e.numBins, 0),
                   !.combinedMask = Fill(e.numBins, 0),
                   !.smoothedMask = Fill(e.numBins, 0),
                   !.previousMagnitudes = Fill(e.numBins, 0),
                   !.previousSmoothedMask = Fill(e.numBins, One \div 2),
                   !.magnitudeHistoryData =
                       [j \in 0 .. HorizontalMedianSize - 1 |-> Fill(e.numBins, 0)],
                   !.historyWriteIndex = 0]

EstSetSeparation(e, amount) ==
    [e EXCEPT !.separationAmount = Jlimit(0, SepOne, amount)]
EstSetFocus(e, bias) == [e EXCEPT !.focusBias = Jlimit(-One, One, bias)]
EstSetSpectralFloor(e, threshold) ==
    [e EXCEPT !.spectralFloorThreshold = Jlimit(0, One, threshold)]

GetHistoryFrame(e, frameIndex) ==
    e.magnitudeHistoryData[(e.historyWriteIndex + frameIndex) % HorizontalMedianSize]
GetCurrentFrame(e) ==
    e.magnitudeHistoryData[(e.historyWriteIndex + HorizontalMedianSize - 1)
                               % HorizontalMedianSize]

ComputeHorizontalMedian(e) ==
    [bin \in 1 .. e.numBins |->
        ComputeMedian([k \in 1 .. HorizontalMedianSize |->
                          GetHistoryFrame(e, k - 1)[bin]])]

VerticalMedianSize == 13
\* the window of bin (numbered from 1): startBin and endBin as in the code,
\* which numbers bins from 0
ComputeVerticalMedian(e) ==
    [bin \in 1 .. e.numBins |->
        LET halfWindow == VerticalMedianSize \div 2
            startBin == IF bin - 1 - halfWindow > 0 THEN bin - 1 - halfWindow ELSE 0
            endBin == Min(e.numBins, bin - 1 + halfWindow + 1)
        IN  ComputeMedian([i \in 1 .. endBin - startBin |->
                              GetCurrentFrame(e)[startBin + i]])]

\* updateGuides() that leaves historyWriteIndex where it was
UpdateGuidesKeepsIndex(e, magnitudes) ==
    LET w == [e EXCEPT !.magnitudeHistoryData[e.historyWriteIndex] = magnitudes]
    IN  [w EXCEPT !.horizontalGuide = ComputeHorizontalMedian(w),
                  !.verticalGuide = ComputeVerticalMedian(w)]

UpdateGuides(e, magnitudes) ==
    LET w == [e EXCEPT !.magnitudeHistoryData[e.historyWriteIndex] = magnitudes,
                       !.historyWriteIndex = (@ + 1) % HorizontalMedianSize]
    IN  [w EXCEPT !.horizontalGuide = ComputeHorizontalMedian(w),
                  !.verticalGuide = ComputeVerticalMedian(w)]

ComputeSpectralFlux(e) ==
    [i \in 1 .. e.numBins |->
        LET currentMag == GetCurrentFrame(e)[i]
            prevMag == e.previousMagnitudes[i]
            localEnergy == IF currentMag > prevMag THEN currentMag ELSE prevMag
        IN  IF localEnergy > 0
            THEN Clamp01((Abs(currentMag - prevMag) * One) \div localEnergy)
            ELSE 0]

ComputeSpectralFlatness(e) ==
    [bin \in 1 .. e.numBins |->
        LET halfWindow == 13 \div 2
            startBin == IF bin - 1 - halfWindow > 1 THEN bin - 1 - halfWindow ELSE 1
            endBin == Min(e.numBins, bin - 1 + halfWindow + 1)
            valid == SelectSeq([i \in 1 .. endBin - startBin |->
                                   GetCurrentFrame(e)[startBin + i]],
                               LAMBDA mag : mag > 0)
        IN  IF endBin - startBin < 3 THEN One \div 2
            ELSE IF Len(valid) >= 3 /\ Sum(valid) > 0
            THEN Clamp01((Root(Product(valid), Len(valid)) * Len(valid) * One)
                             \div Sum(valid))
            ELSE One \div 2]

UpdateStats(e, magnitudes) ==
    [e EXCEPT !.spectralFlux = ComputeSpectralFlux(e),
              !.spectralFlatness = ComputeSpectralFlatness(e),
              !.previousMagnitudes = magnitudes]

\* the loop body of computeMasks for bin i
WienerMask(e, i) ==
    LET fluxPenalty == (e.spectralFlux[i] * 70) \div 100
        flatnessPenalty == (e.spectralFlatness[i] * 50) \div 100
        tonal0 == Scale(Square(e.horizontalGuide[i]),
                        (One - fluxPenalty) * (One - flatnessPenalty), One * One)
        noise0 == Scale(Square(e.verticalGuide[i]),
                        (One + fluxPenalty \div 2) * (One + flatnessPenalty \div 2),
                        One * One)
        bias == Abs(e.focusBias)
        boost == One * One + bias * (2 * One + bias * 2)
        tonalPower == IF e.focusBias < 0 THEN Scale(tonal0, boost, One * One)
                      ELSE tonal0
        noisePower == IF e.focusBias > 0 THEN Scale(noise0, boost, One * One)
                      ELSE noise0
        totalPower == Add(Add(tonalPower, noisePower), Eps)
    IN  Pow(Ratio(tonalPower, totalPower),
            MaskExponent(e.separationAmount) \div ExponentOne)

AttackAlpha == 50
ReleaseAlpha == 15
\* a comparison with NaN is false, arithmetic on NaN gives NaN
ApplyAsymmetricSmoothing(e) ==
    [e EXCEPT !.smoothedMask = [i \in 1 .. e.numBins |->
        LET current == e.combinedMask[i]
            previous == e.previousSmoothedMask[i]
            alpha == IF current /= NaN /\ previous /= NaN /\ current > previous
                     THEN AttackAlpha ELSE ReleaseAlpha
        IN  IF current = NaN \/ previous = NaN THEN NaN
            ELSE (alpha * current + (One - alpha) * previous) \div One]]

BlurRadius == 1
ApplyFrequencyBlur(e) ==
    [e EXCEPT !.smoothedMask = [i \in 1 .. e.numBins |->
        LET neighbours == {n \in i - BlurRadius .. i + BlurRadius :
                               n >= 1 /\ n <= e.numBins}
            Weight(n) == IF n = i THEN 50 ELSE 25
            weights == [k \in 1 .. 2 * BlurRadius + 1 |->
                           IF i - BlurRadius - 1 + k \in neighbours
                           THEN Weight(i - BlurRadius - 1 + k) ELSE 0]
            weighted == [k \in 1 .. 2 * BlurRadius + 1 |->
                            IF i - BlurRadius - 1 + k \in neighbours
                            THEN e.smoothedMask[i - BlurRadius - 1 + k] * weights[k]
                            ELSE 0]
        IN  IF \E n \in neighbours : e.smoothedMask[n] = NaN THEN NaN
            ELSE IF Sum(weights) > 0 THEN Sum(weighted) \div Sum(weights)
            ELSE e.smoothedMask[i]]]

ApplySpectralFloor(e) ==
    IF e.spectralFloorThreshold <= 0 THEN e
    ELSE [e EXCEPT !.smoothedMask = [i \in 1 .. e.numBins |->
        LET halfThreshold == e.spectralFloorThreshold \div 2
            floorLevel == halfThreshold
            ceilingLevel == One - halfThreshold
            mask == e.smoothedMask[i]
        IN  IF mask = NaN THEN NaN
            ELSE IF mask < floorLevel
            THEN (mask * mask * mask) \div (floorLevel * floorLevel)
            ELSE IF mask > ceilingLevel
            THEN One - ((One - mask) * (One - mask) * (One - mask))
                           \div ((One - ceilingLevel) * (One - ceilingLevel))
            ELSE mask]]

\* 1.0f - x
Complement(x) == IF x = NaN THEN NaN ELSE One - x

\* computeMasks: the estimator afterwards and the two output spans
ComputeMasks(e) ==
    LET c == [e EXCEPT !.combinedMask = [i \in 1 .. e.numBins |-> WienerMask(e, i)]]
        s == ApplySpectralFloor(ApplyFrequencyBlur(ApplyAsymmetricSmoothing(c)))
    IN  [est |-> [s EXCEPT !.previousSmoothedMask = s.smoothedMask],
         tonalMask |-> s.smoothedMask,
         noiseMask |-> [i \in 1 .. e.numBins |-> Complement(s.smoothedMask[i])]]

\* ---------------------------------------------------------- HPSSProcessor
SampleRate == 48000 \div 128
\* maxBlockSize of prepare(48000.0, 512)
HostBlockSize == 512 \div 128
\* (tonalGain, noiseGain) pairs a host passes to processBlock
GainSettings == {<<Unity, Unity>>, <<Unity \div 2, Unity>>}

ConfigOf(highQuality) == IF highQuality THEN HighQuality ELSE LowLatency

\* a sample that reached the output through the bypass delay line
Exact(s) ==
    IF s = Zero THEN {}
    ELSE {[k |-> -1, idx |-> 0, src |-> s, tg |-> Unity, ng |-> Unity]}

\* smoother state reached by reset(): the last target is kept
HpResetSmoother(sm, sampleRate) == SmoothedReset(sm, sampleRate)

\* HPSSProcessor(lowLatency) followed by prepare(sampleRate, maxBlockSize)
HpPrepare(highQuality, sampleRate, maxBlockSize) ==
    LET cfg == ConfigOf(highQuality)
        sm == SmoothedReset(SmoothedReset(SmoothedValueNew, 48000), sampleRate)
    IN  [useHighQuality |-> highQuality,
         bypassEnabled |-> FALSE,
         debugPassthroughEnabled |-> FALSE,
         currentSampleRate |-> sampleRate,
         currentBlockSize |-> maxBlockSize,
         tonalGainSmoother |-> sm,
         noiseGainSmoother |-> sm,
         mask |-> MaskPrepare,
         \* frames handed back since prepare()/reset() after mask processing
         \* and in debug passthrough: observation counters
         framesProcessed |-> 0,
         debugFrames |-> 0,
         bypassBuffer |-> [j \in 0 .. GetLatencyInSamples(cfg) + maxBlockSize - 1
                               |-> Zero],
         bypassWritePos |-> GetLatencyInSamples(cfg),
         bypassReadPos |-> 0]

\* reset(): components, smoothers, buffers, bypass cursors
HpReset(h, s) ==
    [h EXCEPT !.mask = MaskPrepare,
              !.framesProcessed = 0,
              !.debugFrames = 0,
              !.tonalGainSmoother = HpResetSmoother(@, h.currentSampleRate),
              !.noiseGainSmoother = HpResetSmoother(@, h.currentSampleRate),
              !.bypassBuffer = [j \in DOMAIN h.bypassBuffer |-> Zero],
              !.bypassWritePos = GetLatencyInSamples(s.cfg),
              !.bypassReadPos = 0]

BypassSize(h) == Cardinality(DOMAIN h.bypassBuffer)

\* processBypass() whose read cursor is left behind
ProcessBypassReadStalls(h, input) ==
    [h EXCEPT !.bypassBuffer = RingWrite(h.bypassBuffer, h.bypassWritePos,
                                         BypassSize(h), input),
              !.bypassWritePos = (@ + Len(input)) % BypassSize(h)]

\* processBypass() that also advances both gain smoothers by the block
ProcessBypassSkipsSmoothers(h, input) ==
    [h EXCEPT !.bypassBuffer = RingWrite(h.bypassBuffer, h.bypassWritePos,
                                         BypassSize(h), input),
              !.bypassWritePos = (@ + Len(input)) % BypassSize(h),
              !.bypassReadPos = (@ + Len(input)) % BypassSize(h),
              !.tonalGainSmoother = Skip(@, Len(input)),
              !.noiseGainSmoother = Skip(@, Len(input))]

\* processBypass(): write the block, then read the delayed block
ProcessBypass(h, input) ==
    [h EXCEPT !.bypassBuffer = RingWrite(h.bypassBuffer, h.bypassWritePos,
                                         BypassSize(h), input),
              !.bypassWritePos = (@ + Len(input)) % BypassSize(h),
              !.bypassReadPos = (@ + Len(input)) % BypassSize(h)]

ProcessBypassSamples(h, input) ==
    LET after == ProcessBypass(h, input)
        rd == RingRead(after.bypassBuffer, h.bypassReadPos, BypassSize(h),
                       Len(input))
    IN  [i \in 1 .. Len(input) |-> Exact(rd[i])]

\* tryUnityGainPath(): requested gains, smoothers' current and target at 1.0
TryUnityGainPath(h, tonalGain, noiseGain) ==
    /\ tonalGain = Unity /\ noiseGain = Unity
    /\ h.tonalGainSmoother.currentValue = Unity
    /\ h.noiseGainSmoother.currentValue = Unity
    /\ h.tonalGainSmoother.target = Unity
    /\ h.noiseGainSmoother.target = Unity

UpdateParameterSmoothing(h, tonalGain, noiseGain) ==
    [h EXCEPT !.tonalGainSmoother = SetTargetValue(@, tonalGain),
              !.noiseGainSmoother = SetTargetValue(@, noiseGain)]

\* the loop body advancing the smoothers by one sample per frame
ProcessFrameSkipOne(st) ==
    IF st.h.debugPassthroughEnabled
    THEN [h |-> [st.h EXCEPT !.debugFrames = @ + 1],
          s |-> PushAndProcess(
                    SetCurrentFrame(st.s, st.s.currentFrame, Unity, Unity), <<>>)]
    ELSE [h |-> [st.h EXCEPT
                    !.mask = MaskUpdate(@, st.s.currentFrame),
                    !.framesProcessed = @ + 1,
                    !.tonalGainSmoother = Skip(@, 1),
                    !.noiseGainSmoother = Skip(@, 1)],
          s |-> PushAndProcess(
                    SetCurrentFrame(st.s, st.s.currentFrame,
                                    st.h.tonalGainSmoother.currentValue,
                                    st.h.noiseGainSmoother.currentValue), <<>>)]

\* one iteration of while (isFrameReady()) in processBlock
ProcessFrame(st) ==
    IF st.h.debugPassthroughEnabled
    THEN [h |-> [st.h EXCEPT !.debugFrames = @ + 1],
          s |-> PushAndProcess(
                    SetCurrentFrame(st.s, st.s.currentFrame, Unity, Unity), <<>>)]
    ELSE [h |-> [st.h EXCEPT
                    !.mask = MaskUpdate(@, st.s.currentFrame),
                    !.framesProcessed = @ + 1,
                    !.tonalGainSmoother = Skip(@, st.s.cfg.hopSize),
                    !.noiseGainSmoother = Skip(@, st.s.cfg.hopSize)],
          s |-> PushAndProcess(
                    SetCurrentFrame(st.s, st.s.currentFrame,
                                    st.h.tonalGainSmoother.currentValue,
                                    st.h.noiseGainSmoother.currentValue), <<>>)]

RECURSIVE DrainFrames(_)
DrainFrames(st) ==
    IF st.s.frameReady THEN DrainFrames(ProcessFrame(st)) ELSE st

\* full pipeline up to (not including) processOutput
RunPipeline(h, s, input, tonalGain, noiseGain) ==
    DrainFrames([h |-> UpdateParameterSmoothing(h, tonalGain, noiseGain),
                 s |-> PushAndProcess(s, input)])

PathOf(h, tonalGain, noiseGain) ==
    IF h.bypassEnabled THEN "bypass"
    ELSE IF TryUnityGainPath(h, tonalGain, noiseGain) THEN "unity"
    ELSE "full"

\* a sample of the tonal or noise buffer: the sample of, times num / den
MonitorSample(of, num, den) == [of |-> of, num |-> num, den |-> den]

\* the tonal and noise buffers processBlock leaves: zeros in bypass, the
\* input and zeros on the unity path, otherwise the output times
\* gain / (tonal gain + noise gain) of the smoothers' current values
MonitorBuffers(h, after, path, input, output) ==
    LET n == Len(input)
        tonalOnlyGain == after.tonalGainSmoother.currentValue
        noiseOnlyGain == after.noiseGainSmoother.currentValue
        silence == [i \in 1 .. n |-> MonitorSample(Exact(Zero), 1, 1)]
    IN  IF path = "bypass" THEN [tonal |-> silence, noise |-> silence]
        ELSE IF path = "unity"
        THEN [tonal |-> [i \in 1 .. n |-> MonitorSample(Exact(input[i]), 1, 1)],
              noise |-> silence]
        ELSE [tonal |-> [i \in 1 .. n |->
                            MonitorSample(output[i], tonalOnlyGain,
                                          tonalOnlyGain + noiseOnlyGain)],
              noise |-> [i \in 1 .. n |->
                            MonitorSample(output[i], noiseOnlyGain,
                                          tonalOnlyGain + noiseOnlyGain)]]

\* --------------------------------------------- HPSSProcessor as an object
\* The coordinator with its components and stored parameters, from
\* construction on.  Before prepare() there are no components; afterwards h
\* is the coordinator state used above, s the STFT engine, maskEstimator the
\* estimator's parameters and bin count (its history is h.mask), and the
\* mask buffers and the MagPhaseFrame are kept by their sizes.
NumBinsOf(cfg) == (cfg.fftSize * 128) \div 2 + 1

PrNew(lowLatency) ==
    [isInitialized |-> FALSE,
     useHighQuality |-> ~lowLatency,
     bypassEnabled |-> FALSE,
     debugPassthroughEnabled |-> FALSE,
     separation |-> (3 * SepOne) \div 4, focus |-> 0, spectralFloor |-> 0,
     currentSampleRate |-> 48000 \div 128,
     currentBlockSize |-> 512 \div 128,
     numBins |-> 0,
     tonalGainSmoother |-> SmoothedReset(SmoothedValueNew, 48000),
     noiseGainSmoother |-> SmoothedReset(SmoothedValueNew, 48000)]

\* where the flags and the smoothers of a processor are kept
PrFlags(p) == IF p.isInitialized THEN p.h ELSE p

PrGetLatencyInSamples(p) ==
    IF p.isInitialized THEN GetLatencyInSamples(p.s.cfg) ELSE 0

\* make_unique<MaskEstimator>() and prepare(numBins, sampleRate)
EstPrepared(numBins) == [EstNew EXCEPT !.numBins = numBins, !.isInitialized = TRUE]

PrEstimatorParams(p) ==
    <<p.maskEstimator.separationAmount, p.maskEstimator.focusBias,
      p.maskEstimator.spectralFloorThreshold>>
PrStoredParams(p) == <<p.separation, p.focus, p.spectralFloor>>

\* initializeComponents() that also hands the spectral floor to the estimator
PrNewEstimatorWithFloor(p, numBins) ==
    EstSetSpectralFloor(
        EstSetFocus(EstSetSeparation(EstPrepared(numBins), p.separation), p.focus),
        p.spectralFloor)

\* the estimator initializeComponents() builds
PrNewEstimator(p, numBins) ==
    EstSetFocus(EstSetSeparation(EstPrepared(numBins), p.separation), p.focus)

\* initializeComponents() that keeps the bypass delay line it finds
PrInitializeComponentsKeepsBypass(p) ==
    LET cfg == ConfigOf(p.useHighQuality)
    IN  [p EXCEPT !.s = StftPrepare(cfg),
                  !.numBins = NumBinsOf(cfg),
                  !.magPhaseFrameBins = NumBinsOf(cfg),
                  !.maskEstimator = PrNewEstimator(p, NumBinsOf(cfg)),
                  !.tonalMaskBufferSize = NumBinsOf(cfg),
                  !.noiseMaskBufferSize = NumBinsOf(cfg),
                  !.h = [p.h EXCEPT !.useHighQuality = p.useHighQuality,
                                    !.mask = MaskPrepare]]

\* initializeComponents() on a prepared processor
PrInitializeComponents(p) ==
    LET cfg == ConfigOf(p.useHighQuality)
        latencyInSamples == GetLatencyInSamples(cfg)
    IN  [p EXCEPT !.s = StftPrepare(cfg),
                  !.numBins = NumBinsOf(cfg),
                  !.magPhaseFrameBins = NumBinsOf(cfg),
                  !.maskEstimator = PrNewEstimator(p, NumBinsOf(cfg)),
                  !.tonalMaskBufferSize = NumBinsOf(cfg),
                  !.noiseMaskBufferSize = NumBinsOf(cfg),
                  !.h = [p.h EXCEPT
                            !.useHighQuality = p.useHighQuality,
                            !.mask = MaskPrepare,
                            !.bypassBuffer =
                                [j \in 0 .. latencyInSamples + p.currentBlockSize - 1
                                     |-> Zero],
                            !.bypassWritePos = latencyInSamples,
                            !.bypassReadPos = 0]]

\* prepare(): smoothers reset, components built, buffers sized
PrPrepare(p, sampleRate, maxBlockSize) ==
    LET old == PrFlags(p)
        cfg == ConfigOf(p.useHighQuality)
    IN  [isInitialized |-> TRUE,
         useHighQuality |-> p.useHighQuality,
         separation |-> p.separation, focus |-> p.focus,
         spectralFloor |-> p.spectralFloor,
         currentSampleRate |-> sampleRate,
         currentBlockSize |-> maxBlockSize,
         numBins |-> NumBinsOf(cfg),
         s |-> StftPrepare(cfg),
         magPhaseFrameBins |-> NumBinsOf(cfg),
         maskEstimator |-> PrNewEstimator(p, NumBinsOf(cfg)),
         tonalMaskBufferSize |-> NumBinsOf(cfg),
         noiseMaskBufferSize |-> NumBinsOf(cfg),
         h |-> [HpPrepare(p.useHighQuality, sampleRate, maxBlockSize) EXCEPT
                   !.bypassEnabled = old.bypassEnabled,
                   !.debugPassthroughEnabled = old.debugPassthroughEnabled,
                   !.tonalGainSmoother =
                       SmoothedReset(old.tonalGainSmoother, sampleRate),
                   !.noiseGainSmoother =
                       SmoothedReset(old.noiseGainSmoother, sampleRate)]]

PrReset(p) ==
    IF ~p.isInitialized THEN p
    ELSE [p EXCEPT !.h = HpReset(p.h, p.s), !.s = StftReset(p.s)]

PrSetBypass(p, shouldBypass) ==
    IF p.isInitialized THEN [p EXCEPT !.h.bypassEnabled = shouldBypass]
    ELSE [p EXCEPT !.bypassEnabled = shouldBypass]

PrSetDebugPassthrough(p, enabled) ==
    IF p.isInitialized THEN [p EXCEPT !.h.debugPassthroughEnabled = enabled]
    ELSE [p EXCEPT !.debugPassthroughEnabled = enabled]

PrSetQualityMode(p, highQuality) ==
    IF p.useHighQuality = highQuality THEN p
    ELSE IF p.isInitialized
         THEN PrInitializeComponents([p EXCEPT !.useHighQuality = highQuality])
         ELSE [p EXCEPT !.useHighQuality = highQuality]

PrSetSeparation(p, amount) ==
    LET v == Jlimit(0, SepOne, amount)
    IN  IF p.isInitialized
        THEN [p EXCEPT !.separation = v,
                       !.maskEstimator = EstSetSeparation(@, v)]
        ELSE [p EXCEPT !.separation = v]

PrSetFocus(p, bias) ==
    LET v == Jlimit(-One, One, bias)
    IN  IF p.isInitialized
        THEN [p EXCEPT !.focus = v, !.maskEstimator = EstSetFocus(@, v)]
        ELSE [p EXCEPT !.focus = v]

PrSetSpectralFloor(p, threshold) ==
    LET v == Jlimit(0, One, threshold)
    IN  IF p.isInitialized
        THEN [p EXCEPT !.spectralFloor = v,
                       !.maskEstimator = EstSetSpectralFloor(@, v)]
        ELSE [p EXCEPT !.spectralFloor = v]

\* processBlock() on a prepared processor: the processor afterwards
PrProcessBlock(p, input, tonalGain, noiseGain) ==
    LET path == PathOf(p.h, tonalGain, noiseGain)
        st == RunPipeline(p.h, p.s, input, tonalGain, noiseGain)
    IN  IF path = "full"
        THEN [p EXCEPT !.h = st.h, !.s = ProcessOutput(st.s, Len(input))]
        ELSE [p EXCEPT !.h = ProcessBypass(p.h, input)]

\* ------------------------------------------------- UnravelAudioProcessor
\* The plug-in: the host's parameter values, the values updateParameters()
\* copied, the latency last passed to setLatencySamples() and one
\* HPSSProcessor per input channel.
NumChannels == 2

PluginNew ==
    [parameters |-> [quality |-> TRUE, bypass |-> FALSE,
                     separation |-> (3 * SepOne) \div 4, focus |-> 0,
                     spectralFloor |-> 0, debugPassthrough |-> FALSE,
                     tonalGain |-> Unity, noisyGain |-> Unity],
     currentTonalGain |-> Unity, currentNoisyGain |-> Unity,
     currentSeparation |-> (3 * SepOne) \div 4, currentFocus |-> 0,
     currentSpectralFloor |-> 0,
     currentQualityMode |-> FALSE, qualityModeChanged |-> FALSE,
     latencySamples |-> 0,
     channelProcessors |-> <<>>]

\* updateParameters() that applies a quality switch without reporting the
\* new latency
UpdateParametersKeepsLatency(pl) ==
    LET qualityMode == pl.parameters.quality
        changed == pl.qualityModeChanged \/ qualityMode /= pl.currentQualityMode
        processors == [ch \in DOMAIN pl.channelProcessors |->
                          IF changed
                          THEN PrSetQualityMode(pl.channelProcessors[ch], qualityMode)
                          ELSE pl.channelProcessors[ch]]
    IN  [pl EXCEPT !.currentQualityMode = qualityMode,
                   !.qualityModeChanged = FALSE,
                   !.channelProcessors = processors]

UpdateParameters(pl) ==
    LET qualityMode == pl.parameters.quality
        changed == pl.qualityModeChanged \/ qualityMode /= pl.currentQualityMode
        apply(p) ==
            LET q == PrSetDebugPassthrough(
                         PrSetSpectralFloor(
                             PrSetFocus(
                                 PrSetSeparation(p, pl.parameters.separation),
                                 pl.parameters.focus),
                             pl.parameters.spectralFloor),
                         pl.parameters.debugPassthrough)
            IN  IF changed THEN PrSetQualityMode(q, qualityMode) ELSE q
        processors == [ch \in DOMAIN pl.channelProcessors |->
                          apply(pl.channelProcessors[ch])]
    IN  [pl EXCEPT !.currentTonalGain = pl.parameters.tonalGain,
                   !.currentNoisyGain = pl.parameters.noisyGain,
                   !.currentSeparation = pl.parameters.separation,
                   !.currentFocus = pl.parameters.focus,
                   !.currentSpectralFloor = pl.parameters.spectralFloor,
                   !.currentQualityMode = qualityMode,
                   !.qualityModeChanged = FALSE,
                   !.channelProcessors = processors,
                   !.latencySamples =
                       IF changed /\ processors /= <<>>
                       THEN PrGetLatencyInSamples(processors[1]) ELSE @]

PrepareToPlay(pl, sampleRate, samplesPerBlock, numInputChannels) ==
    LET processors == [ch \in 1 .. numInputChannels |->
                          PrPrepare(PrNew(TRUE), sampleRate, samplesPerBlock)]
    IN  UpdateParameters(
            [pl EXCEPT !.channelProcessors = processors,
                       !.latencySamples =
                           IF processors /= <<>>
                           THEN PrGetLatencyInSamples(processors[1]) ELSE @])

\* processBlock(): setBypass on every processor, updateParameters(), then
\* every channel's processBlock with the current gains
PluginProcessBlock(pl, inputs) ==
    LET bypassed == [pl EXCEPT !.channelProcessors =
                        [ch \in DOMAIN @ |->
                            PrSetBypass(@[ch], pl.parameters.bypass)]]
        u == UpdateParameters(bypassed)
    IN  [u EXCEPT !.channelProcessors =
            [ch \in DOMAIN @ |->
                PrProcessBlock(@[ch], inputs[ch],
                               u.currentTonalGain, u.currentNoisyGain)]]

\* -------------------------------------------------------- safety limiter
\* Sample values in thousandths of full scale.
SafetyThreshold == 891
SafetyRatio == 8
HardCeiling == 990

\* tanh of x thousandths, in thousandths: x (27 + x^2) / (27 + 9 x^2) up to
\* x = 3, 1 beyond
Tanh(x) ==
    LET c == x \div 10
    IN  IF c >= 300 THEN 1000
        ELSE (10 * c * (270000 + c * c)) \div (270000 + 9 * c * c)

\* softLimit() whose knee has no ceiling
SoftLimitNoCeiling(input) ==
    IF Abs(input) <= SafetyThreshold THEN input
    ELSE LET sign == IF input >= 0 THEN 1 ELSE -1
             excess == Abs(input) - SafetyThreshold
         IN  sign * (SafetyThreshold + Tanh(excess * SafetyRatio) \div SafetyRatio)

SoftLimit(input) ==
    IF Abs(input) <= SafetyThreshold THEN input
    ELSE LET sign == IF input >= 0 THEN 1 ELSE -1
             absInput == Abs(input)
             excess == absInput - SafetyThreshold
             compressed == SafetyThreshold
                               + Tanh(excess * SafetyRatio) \div SafetyRatio
         IN  sign * (IF compressed > HardCeiling THEN HardCeiling ELSE compressed)

\* the sample processBlock writes to the output buffer for a sample x that
\* reaches the end of the branch taken: the bypass and unity branches
\* return before the limiter, debug passthrough skips it
OutputSample(x, path, safetyLimitingEnabled, debugPassthroughEnabled) ==
    IF path = "full" /\ safetyLimitingEnabled /\ ~debugPassthroughEnabled
    THEN SoftLimit(x) ELSE x

\* a limiter stage under test: the sample, the branch and the flags of the
\* last call and the sample written
LimNew ==
    [safetyLimitingEnabled |-> TRUE, debugPassthroughEnabled |-> FALSE,
     x |-> 0, path |-> "none", output |-> 0]

\* ------------------------------------- spectrum display and audio thread
\* The audio thread's position in processBlock, the quality parameter and
\* the mode updateParameters() last applied, the generation of the arrays
\* behind channel 0's views (0: no processor yet; every prepareToPlay and
\* every setQualityMode rebuild makes a new generation), the timer
\* callback's position and the generation its spans point into; the bin
\* count of channel 0 and the one the display cached; blocks processed and
\* host events so far.
GuiNew ==
    [audio |-> "idle", quality |-> TRUE, currentQualityMode |-> FALSE,
     storage |-> 0, numBins |-> 0, timer |-> "idle", span |-> 0,
     cachedNumBins |-> 0, blocks |-> 0, changes |-> 0]

\* ------------------------------------------------- engine driven per block
\* The block loop of testSTFTDetailed and of processBlock in debug
\* passthrough: pushAndProcess(block); while (isFrameReady())
\* { setCurrentFrame(getCurrentFrame()); pushAndProcess(nullptr, 0); }
\* processOutput(block).  One action per engine call.
InputBlock(e, first, n) == [i \in 1 .. n |-> <<e, first + i>>]

\* the objects driven on their own: an HPSSProcessor, the plug-in, a
\* limiter stage, the spectrum display next to the audio thread
sideVars == <<proc, plugin, lim, gui>>
vars == <<stft, pc, bs, epoch, out, fullSeen, hp, pos, lastPath, gains,
          changes, hist, mpf, est, monitor, proc, plugin, lim, gui>>
hpVars == <<hp, pos, lastPath, gains, changes, hist, mpf, est, monitor,
            sideVars>>
\* what the processBlock calls since prepare()/reset() were: the branches
\* taken and the gain pairs passed
NoHistory == [paths |-> {}, gains |-> {}]
engineVars == <<pc, bs, fullSeen, mpf, est, sideVars>>
\* the optional tonal and noise buffers of the last processBlock call
NoMonitor == [tonal |-> <<>>, noise |-> <<>>]
\* the objects driven on their own as constructed
SideInit ==
    /\ proc = PrNew(TRUE)
    /\ plugin = PluginNew
    /\ lim = LimNew
    /\ gui = GuiNew
\* a MagPhaseFrame and its caller: the frame; numBins before the last call
\* and whether the call changed the frame; the last call, the size of its
\* argument (numBins for prepare) and its outcome; the span fromComplex
\* converted, kept while the frame still holds that conversion; the span as
\* the last call left it if that call was toComplex
MpfInit ==
    [frame |-> MpfNew, prevBins |-> 0, changed |-> FALSE, op |-> "none",
     arg |-> 0, outcome |-> "ok", input |-> <<>>, fresh |-> FALSE,
     span |-> <<>>]

\* a MaskEstimator and its caller: the estimator as HPSSProcessor creates it
\* and sets it up (prepare, then the setters); the spans computeMasks wrote
\* if it was the last call; the last call; the frames fed and the calls to
\* reset so far; the frames fed since prepare() or the last reset(); the
\* parameters the last reset() found and whether it found the estimator
\* different from a prepared one
EstInit(separation, focus, floor) ==
    [e |-> EstSetSpectralFloor(
               EstSetFocus(
                   EstSetSeparation(EstPrepare(EstNew, NumBins), separation),
                   focus),
               floor),
     tonalMask |-> <<>>, noiseMask |-> <<>>, op |-> "prepare",
     frames |-> 0, resets |-> 0, log |-> <<>>,
     paramsAtReset |-> <<>>, wasDirty |-> FALSE]

InitEngine ==
    /\ \E cfg \in Configs : stft = StftPrepare(cfg)
    /\ bs \in 1 .. MaxBlockSize
    /\ pc = "push"
    /\ epoch = 1
    /\ out = <<>>
    /\ fullSeen = FALSE
    /\ hp = HpPrepare(FALSE, SampleRate, HostBlockSize)
    /\ pos = 0
    /\ lastPath = "none"
    /\ gains = <<Unity, Unity>>
    /\ changes = 0
    /\ hist = NoHistory /\ monitor = NoMonitor
    /\ SideInit
    /\ mpf = MpfInit
    /\ est = EstInit(SepOne, 0, 0)

EnginePush ==
    /\ pc = "push"
    /\ stft.pushed + bs <= MaxStream
    /\ stft' = PushAndProcess(stft, InputBlock(epoch, stft.pushed, bs))
    /\ pc' = "drain"
    /\ UNCHANGED <<bs, epoch, out, fullSeen, hpVars>>

EngineSetFrame ==
    /\ pc \in {"drain", "set"}
    /\ stft.frameReady
    /\ stft' = SetCurrentFrame(stft, stft.currentFrame, Unity, Unity)
    /\ pc' = "set"
    /\ UNCHANGED <<bs, epoch, out, fullSeen, hpVars>>

\* pushAndProcess(nullptr, 0): after setCurrentFrame, or as an extra poll
EnginePoll ==
    /\ pc \in {"drain", "set"}
    /\ stft' = PushAndProcess(stft, <<>>)
    /\ pc' = "drain"
    /\ UNCHANGED <<bs, epoch, out, fullSeen, hpVars>>

EngineOutput ==
    /\ pc = "drain"
    /\ ~stft.frameReady
    /\ out' = ProcessOutputSamples(stft, bs)
    /\ stft' = ProcessOutput(stft, bs)
    /\ fullSeen' = (fullSeen \/ SamplesToExtract(stft, bs) = bs)
    /\ pc' = "push"
    /\ UNCHANGED <<bs, epoch, hpVars>>

EngineReset ==
    /\ stft.pushed > 0
    /\ epoch <= MaxResets
    /\ stft' = StftReset(stft)
    /\ epoch' = epoch + 1
    /\ pc' = "push"
    /\ out' = <<>>
    /\ fullSeen' = FALSE
    /\ UNCHANGED <<bs, hpVars>>

NextEngine ==
    \/ EnginePush
    \/ EngineSetFrame
    \/ EnginePoll
    \/ EngineOutput
    \/ EngineReset

SpecEngine == InitEngine /\ [][NextEngine]_vars

\* ------------------------------------------------------ coordinator driven
\* One action per call on HPSSProcessor.
Init ==
    /\ hp = HpPrepare(FALSE, SampleRate, HostBlockSize)
    /\ stft = StftPrepare(LowLatency)
    /\ pos = 0
    /\ epoch = 1
    /\ out = <<>>
    /\ lastPath = "none"
    /\ gains \in GainSettings
    /\ changes = 0
    /\ hist = NoHistory /\ monitor = NoMonitor
    /\ SideInit
    /\ mpf = MpfInit
    /\ est = EstInit(SepOne, 0, 0)
    /\ pc = "push"
    /\ bs = HostBlockSize
    /\ fullSeen = FALSE

ProcessBlock(numSamples) ==
    LET input == InputBlock(epoch, pos, numSamples)
        path == PathOf(hp, gains[1], gains[2])
        st == RunPipeline(hp, stft, input, gains[1], gains[2])
    IN  /\ pos + numSamples <= MaxPos
        /\ lastPath' = path
        /\ pos' = pos + numSamples
        /\ IF path = "full"
           THEN /\ hp' = st.h
                /\ out' = ProcessOutputSamples(st.s, numSamples)
                /\ stft' = ProcessOutput(st.s, numSamples)
           ELSE /\ hp' = ProcessBypass(hp, input)
                /\ out' = ProcessBypassSamples(hp, input)
                /\ stft' = stft
        /\ hist' = [paths |-> hist.paths \cup {path},
                    gains |-> hist.gains \cup {gains}]
        /\ monitor' = MonitorBuffers(hp, st.h, path, input, out')
        /\ UNCHANGED <<epoch, gains, changes, engineVars>>

\* the host moves a gain parameter: the values passed to later processBlock calls
SetGains(g) ==
    /\ gains /= g
    /\ changes < MaxChanges
    /\ gains' = g
    /\ changes' = changes + 1
    /\ UNCHANGED <<hp, stft, pos, epoch, out, lastPath, hist, engineVars, monitor>>

SetBypass(shouldBypass) ==
    /\ hp.bypassEnabled /= shouldBypass
    /\ changes < MaxChanges
    /\ hp' = [hp EXCEPT !.bypassEnabled = shouldBypass]
    /\ changes' = changes + 1
    /\ UNCHANGED <<stft, pos, epoch, out, lastPath, gains, hist, engineVars, monitor>>

SetDebugPassthrough(enabled) ==
    /\ hp.debugPassthroughEnabled /= enabled
    /\ changes < MaxChanges
    /\ hp' = [hp EXCEPT !.debugPassthroughEnabled = enabled]
    /\ changes' = changes + 1
    /\ UNCHANGED <<stft, pos, epoch, out, lastPath, gains, hist, engineVars, monitor>>

Reset ==
    /\ pos > 0
    /\ changes < MaxChanges
    /\ hp' = HpReset(hp, stft)
    /\ stft' = StftReset(stft)
    /\ pos' = 0
    /\ epoch' = epoch + 1
    /\ out' = <<>>
    /\ lastPath' = "reset"
    /\ hist' = NoHistory
    /\ changes' = changes + 1
    /\ UNCHANGED <<gains, engineVars, monitor>>

Next ==
    \/ \E n \in 1 .. hp.currentBlockSize : ProcessBlock(n)
    \/ \E g \in GainSettings : SetGains(g)
    \/ \E b \in BOOLEAN : SetBypass(b)
    \/ \E b \in BOOLEAN : SetDebugPassthrough(b)
    \/ Reset

Spec == Init /\ [][Next]_vars

\* ------------------------------------------------- MagPhaseFrame driven
\* One action per call on a MagPhaseFrame.
\* the bins on the real axis from -MaxAmp to MaxAmp, then those on the
\* imaginary axis; a span holds consecutive ones, bins convert independently
BinAt(k) ==
    IF k <= 2 * MaxAmp THEN [re |-> k - MaxAmp, im |-> 0]
    ELSE [re |-> 0, im |-> k - 3 * MaxAmp - 1]
Spans ==
    {[i \in 1 .. n |-> BinAt((k + i - 1) % (4 * MaxAmp + 2))] :
        n \in 0 .. MaxBins, k \in 0 .. 4 * MaxAmp + 1}
FrameGains == {0, 1}
restVars == <<stft, pc, bs, epoch, out, fullSeen, hp, pos, lastPath, gains,
              changes, hist, est, monitor, sideVars>>

InitFrame ==
    /\ mpf = MpfInit
    /\ est = EstInit(SepOne, 0, 0)
    /\ stft = StftPrepare(LowLatency)
    /\ hp = HpPrepare(FALSE, SampleRate, HostBlockSize)
    /\ pc = "push" /\ bs = HostBlockSize /\ epoch = 1 /\ out = <<>>
    /\ fullSeen = FALSE /\ pos = 0 /\ lastPath = "none"
    /\ gains = <<Unity, Unity>> /\ changes = 0 /\ hist = NoHistory /\ monitor = NoMonitor
    /\ SideInit

\* the caller's record of a call op(arg) that took the frame to f
Called(op, arg, f, outcome) ==
    [mpf EXCEPT !.frame = f, !.prevBins = GetNumBins(mpf.frame),
                !.changed = (f /= mpf.frame), !.op = op, !.arg = arg,
                !.outcome = outcome, !.input = <<>>, !.fresh = FALSE,
                !.span = <<>>]

FramePrepare(numBins) ==
    /\ mpf' = Called("prepare", numBins, MpfPrepare(mpf.frame, numBins).frame,
                     MpfPrepare(mpf.frame, numBins).outcome)
    /\ UNCHANGED restVars

FrameFromComplex(complex) ==
    LET r == FromComplex(mpf.frame, complex)
    IN  /\ mpf' = [Called("fromComplex", Len(complex), r.frame, r.outcome)
                       EXCEPT !.input = IF r.outcome = "ok" THEN complex
                                        ELSE mpf.input,
                              !.fresh = IF r.outcome = "ok" THEN TRUE
                                        ELSE mpf.fresh]
        /\ UNCHANGED restVars

\* the caller hands in a zero-filled span of spanSize bins
FrameToComplex(spanSize) ==
    LET r == ToComplex(mpf.frame, [i \in 1 .. spanSize |-> ComplexZero])
    IN  /\ mpf' = [Called("toComplex", spanSize, mpf.frame, r.outcome)
                       EXCEPT !.input = mpf.input, !.fresh = mpf.fresh,
                              !.span = r.span]
        /\ UNCHANGED restVars

FrameReset ==
    /\ mpf' = Called("reset", 0, MpfReset(mpf.frame), "ok")
    /\ UNCHANGED restVars

FrameGetMagnitudes ==
    /\ mpf' = [Called("getMagnitudes", 0, mpf.frame, GetMagnitudes(mpf.frame))
                   EXCEPT !.input = mpf.input, !.fresh = mpf.fresh]
    /\ UNCHANGED restVars

\* other is a frame prepared with otherBins bins, unprepared for 0
FrameCopyFrom(otherBins) ==
    LET r == CopyFrom(mpf.frame, MpfPrepare(MpfNew, otherBins).frame)
    IN  /\ mpf' = [Called("copyFrom", otherBins, r.frame, r.outcome)
                       EXCEPT !.input = IF r.outcome = "ok" THEN <<>>
                                        ELSE mpf.input,
                              !.fresh = IF r.outcome = "ok" THEN FALSE
                                        ELSE mpf.fresh]
        /\ UNCHANGED restVars

FrameApplyGain(gain) ==
    /\ mpf' = [Called("applyGain", gain, ApplyGain(mpf.frame, gain), "ok")
                   EXCEPT !.input = IF gain = 1 THEN mpf.input ELSE <<>>,
                          !.fresh = IF gain = 1 THEN mpf.fresh ELSE FALSE]
    /\ UNCHANGED restVars

NextFrame ==
    \/ \E n \in -1 .. MaxBins : FramePrepare(n)
    \/ \E c \in Spans : FrameFromComplex(c)
    \/ \E n \in 0 .. MaxBins : FrameToComplex(n)
    \/ FrameReset
    \/ FrameGetMagnitudes
    \/ \E n \in 0 .. MaxBins : FrameCopyFrom(n)
    \/ \E g \in FrameGains : FrameApplyGain(g)

SpecFrame == InitFrame /\ [][NextFrame]_vars

\* ------------------------------------------------- MaskEstimator driven
\* One action per call a caller makes; a frame is fed as HPSSProcessor feeds
\* it: updateGuides, updateStats, computeMasks.
Silence == Fill(NumBins, 0)
Tone == [i \in 1 .. NumBins |-> IF i = 2 THEN Huge \div 5 ELSE Huge \div 15]
HugeFlat == Fill(NumBins, Huge)
MagnitudeFrames == {Silence, Tone, HugeFlat}
\* separations whose mask exponent is a whole number (1 and 5)
Separations == {(7 * SepOne) \div 27, SepOne}
FocusSettings == {-One, 0, One}
FloorSettings == {0, One}
maskRest == <<stft, pc, bs, epoch, out, fullSeen, hp, pos, lastPath, gains,
              changes, hist, mpf, monitor, sideVars>>

Params(e) == <<e.separationAmount, e.focusBias, e.spectralFloorThreshold>>
\* everything an estimator carries from frame to frame
FrameToFrameState(e) ==
    <<e.magnitudeHistoryData, e.historyWriteIndex, e.previousMagnitudes,
      e.previousSmoothedMask, e.horizontalGuide, e.verticalGuide,
      e.spectralFlux, e.spectralFlatness, e.combinedMask, e.smoothedMask>>

\* updateGuides, updateStats, computeMasks on one magnitude frame
FeedFrame(e, magnitudes) ==
    ComputeMasks(UpdateStats(UpdateGuides(e, magnitudes), magnitudes))

InitMask ==
    /\ \E s \in Separations, b \in FocusSettings, f \in FloorSettings :
           est = EstInit(s, b, f)
    /\ mpf = MpfInit
    /\ stft = StftPrepare(LowLatency)
    /\ hp = HpPrepare(FALSE, SampleRate, HostBlockSize)
    /\ pc = "push" /\ bs = HostBlockSize /\ epoch = 1 /\ out = <<>>
    /\ fullSeen = FALSE /\ pos = 0 /\ lastPath = "none"
    /\ gains = <<Unity, Unity>> /\ changes = 0 /\ hist = NoHistory /\ monitor = NoMonitor
    /\ SideInit

EstimatorFrame(magnitudes) ==
    /\ est.frames < MaxFrames
    /\ LET r == FeedFrame(est.e, magnitudes)
       IN  est' = [est EXCEPT !.e = r.est,
                              !.tonalMask = r.tonalMask,
                              !.noiseMask = r.noiseMask,
                              !.op = "computeMasks",
                              !.frames = @ + 1,
                              !.log = Append(@, magnitudes)]
    /\ UNCHANGED maskRest

EstimatorReset ==
    /\ est.resets < MaxResets
    /\ est' = [est EXCEPT !.e = EstReset(est.e),
                          !.tonalMask = <<>>, !.noiseMask = <<>>,
                          !.op = "reset",
                          !.resets = @ + 1,
                          !.log = <<>>,
                          !.paramsAtReset = Params(est.e),
                          !.wasDirty = FrameToFrameState(est.e)
                                           /= FrameToFrameState(EstPrepare(EstNew, NumBins))]
    /\ UNCHANGED maskRest

NextMask ==
    \/ \E m \in MagnitudeFrames : EstimatorFrame(m)
    \/ EstimatorReset

SpecMask == InitMask /\ [][NextMask]_vars

\* ------------------------------------------------------- engine properties
Latency == GetLatencyInSamples(stft.cfg)
\* output stream position reached so far (samples returned by processOutput)
OutPos == stft.extracted + stft.padded
\* the block just returned by processOutput is in out
AfterOutput == pc = "push" /\ out /= <<>>
\* frames whose window covers input sample q (1-based)
FramesCovering(cfg, q) ==
    {k \in 0 .. q : k * cfg.hopSize + 1 <= q /\ q <= k * cfg.hopSize + cfg.fftSize}
\* the complete overlap-add of input sample q under identity processing
FullRecon(cfg, e, q) ==
    {[k |-> k, idx |-> q - k * cfg.hopSize, src |-> <<e, q>>,
      tg |-> Unity, ng |-> Unity] : k \in FramesCovering(cfg, q)}

\* C2: with a constant block size and the push / drain / processOutput loop,
\* once the stream is past its first 2*fftSize output samples, every
\* reconstructed sample returned at output position p is input sample
\* p - (fftSize - hopSize).
C2_LatencyContract ==
    AfterOutput =>
        \A i \in 1 .. Len(out) :
            OutPos - Len(out) + i > 2 * stft.cfg.fftSize =>
                \A c \in out[i] :
                    c.src = <<epoch, OutPos - Len(out) + i - Latency>>

\* the 512-sample block of the reconstruction tests
TestBlockSize == 512 \div 128

\* C3 as stated: with 512-sample blocks, after the first 4 blocks every
\* returned sample at position p is the complete overlap-add (fftSize/hopSize
\* consecutive frames, each once) of input sample p - latency.
C3_AfterFourBlocks ==
    (AfterOutput /\ bs = TestBlockSize /\ OutPos > 4 * bs) =>
        \A i \in 1 .. bs :
            /\ out[i] = FullRecon(stft.cfg, epoch, OutPos - bs + i - Latency)
            /\ Cardinality(out[i]) = stft.cfg.fftSize \div stft.cfg.hopSize

\* C3 amended: with 512-sample blocks, every sample returned at a stream
\* position p beyond the first 2*(fftSize - hopSize) samples (3 blocks for
\* 1024/256, 6 blocks for 2048/512) is the complete overlap-add (fftSize/hopSize
\* consecutive frames, each once) of input sample p - latency.
C3_ColaAfterSettling ==
    (AfterOutput /\ bs = TestBlockSize) =>
        \A i \in 1 .. bs :
            OutPos - bs + i > 2 * Latency =>
                /\ out[i] = FullRecon(stft.cfg, epoch, OutPos - bs + i - Latency)
                /\ Cardinality(out[i]) = stft.cfg.fftSize \div stft.cfg.hopSize

C3_Witness ==
    /\ AfterOutput /\ bs = TestBlockSize /\ stft.cfg = HighQuality
    /\ OutPos = 8 * bs
    /\ out[1] = FullRecon(HighQuality, epoch, OutPos - bs + 1 - Latency)

\* C7: frame-ready protocol.  Every step is one engine call.
C7_Step ==
    /\ stft'.frames \in {stft.frames, stft.frames + 1} \/ epoch' /= epoch
    /\ (stft.frameReady /\ stft'.synths = stft.synths /\ epoch' = epoch) =>
           /\ stft'.frames = stft.frames
           /\ stft'.currentFrame = stft.currentFrame
           /\ stft'.frameReady
    /\ (~stft.frameReady /\ stft'.frameReady) => stft'.frames = stft.frames + 1
    /\ (stft.frameReady /\ ~stft'.frameReady) =>
           (stft'.synths = stft.synths + 1 \/ epoch' /= epoch)
    /\ epoch' /= epoch => ~stft'.frameReady
    /\ stft'.frames = stft'.synths + (IF stft'.frameReady THEN 1 ELSE 0)
    /\ stft'.inRead = (stft'.frames * stft.cfg.hopSize) % RingSize(stft.cfg)
    /\ stft'.frameReady => stft'.currentFrame.k = stft'.frames - 1

C7_FrameProtocol == (~stft.frameReady) /\ [][C7_Step]_vars

\* a poll made while a frame was pending
C7_Witness == stft.frameReady /\ pc = "drain" /\ stft.frames >= 3

\* C8: the window read by a forward transform is input samples
\* k*hopSize .. k*hopSize + fftSize - 1 of the current stream.
C8_AnalysisWindow ==
    stft.frameReady =>
        stft.currentFrame.win =
            [i \in 1 .. stft.cfg.fftSize |->
                <<epoch, stft.currentFrame.k * stft.cfg.hopSize + i>>]

\* C9: frame k (0-based) is analysed only once fftSize + k*hopSize samples
\* were pushed, and a pushAndProcess call made with that many samples pushed
\* and no frame pending analyses it.
C9_Step ==
    /\ stft'.frames > 0 =>
           stft'.pushed >= stft.cfg.fftSize + (stft'.frames - 1) * stft.cfg.hopSize
    /\ (pc' = "drain" /\ epoch' = epoch /\ ~stft.frameReady
        /\ stft'.pushed >= stft.cfg.fftSize + stft.frames * stft.cfg.hopSize) =>
           stft'.frames = stft.frames + 1

C9_FirstFrame == [][C9_Step]_vars

\* C10: once a processOutput call returned a full block without padding, no
\* later call of the same stream zero-pads.
C10_NoLatePadding ==
    [][(fullSeen /\ pc = "drain" /\ pc' = "push" /\ epoch' = epoch) =>
           stft'.padded = stft.padded]_vars

\* -------------------------------------------------- coordinator properties
HpLatency == GetLatencyInSamples(ConfigOf(hp.useHighQuality))
\* the input delayed by the reported latency, at output stream position p
Delayed(p) == IF p > HpLatency THEN Exact(<<epoch, p - HpLatency>>)
              ELSE Exact(Zero)
\* the block just written by processBlock is the delayed input
OutIsDelayedInput ==
    \A i \in 1 .. Len(out) : out[i] = Delayed(pos - Len(out) + i)

\* C1: a processBlock call made with both gains 1.0, bypass off and both
\* smoothers' current and target values at 1.0 writes the input stream
\* delayed by the reported latency, whatever the earlier blocks did.
C1_UnityTransparent == lastPath = "unity" => OutIsDelayedInput

\* C4: with gains never at unity and bypass toggled between calls, every
\* bypassed block carries, at each stream position p, exactly input sample
\* p - latency (silence only for p <= latency).
C4_BypassToggleAligned ==
    (lastPath = "bypass" /\ <<Unity, Unity>> \notin hist.gains) =>
        OutIsDelayedInput

\* C5: while every block since prepare()/reset() was bypassed, the output is
\* the input delayed by the latency; and at every call boundary
\* (bypassWritePos - bypassReadPos) mod (latency + maxBlockSize) = latency.
C5_MatchedLatencyBypass ==
    /\ (hp.bypassWritePos - hp.bypassReadPos) % BypassSize(hp) = HpLatency
    /\ BypassSize(hp) = HpLatency + hp.currentBlockSize
    /\ hist.paths = {"bypass"} => OutIsDelayedInput

\* bypassed from a reset() onward, the delay line has wrapped, and the block
\* ends with the input sample one latency back
C5_Witness ==
    /\ hist.paths = {"bypass"}
    /\ epoch > 1
    /\ pos > BypassSize(hp)
    /\ out[Len(out)] = Exact(<<epoch, pos - HpLatency>>)

\* C6: right after reset() the coordinator and the engine are in their
\* post-prepare state for the same configuration and bypass setting.
C6_ResetIsFreshPrepare ==
    lastPath = "reset" =>
        /\ hp = [HpPrepare(hp.useHighQuality, hp.currentSampleRate,
                           hp.currentBlockSize)
                     EXCEPT !.bypassEnabled = hp.bypassEnabled]
        /\ stft = StftPrepare(stft.cfg)

\* C11: on a coordinator that was constructed and prepared and never reset,
\* with bypass off and every processBlock call made with both gains 1.0,
\* every call takes the unity path: nothing is pushed into the STFT engine,
\* no frame is analysed, and the output is the input delayed by the latency.
C11_DefaultIsUnityPath ==
    (epoch = 1 /\ hist.gains = {<<Unity, Unity>>} /\ "bypass" \notin hist.paths) =>
        /\ hist.paths = {"unity"}
        /\ stft.pushed = 0
        /\ stft.frames = 0
        /\ OutIsDelayedInput

\* input samples written and not yet consumed by an analysis hop
Unread == stft.pushed - stft.frames * stft.cfg.hopSize

\* C17: for every block size up to the maxBlockSize given to prepare(), the
\* unread samples in the input ring stay below the ring capacity 4*fftSize
\* and getReadableDistance() is the true number of unread samples.
C17_InputRingCapacity ==
    /\ Unread < RingSize(stft.cfg)
    /\ GetReadableDistance(stft.inWrite, stft.inRead, RingSize(stft.cfg)) = Unread

\* output-ring slots between the read cursor and the end of the last
\* overlap-added frame: [readPos, writePos + fftSize - hopSize)
PendingRegion ==
    {j \in 0 .. RingSize(stft.cfg) - 1 :
        (j - stft.outRead) % RingSize(stft.cfg)
            < stft.samplesInOutputBuffer + Latency}

C20_DrainLoopBounded ==
    AfterOutput =>
        /\ ~stft.frameReady
        /\ stft.synths = stft.frames
        /\ stft.frames * stft.cfg.hopSize <= stft.pushed
        /\ Unread < stft.cfg.fftSize

\* C18 as stated: the samples each gain smoother was advanced by equal
\* hopSize times the number of frames handed back through setCurrentFrame.
C18_SkipPerFrameHandedBack ==
    /\ hp.tonalGainSmoother.skipped = stft.cfg.hopSize * stft.synths
    /\ hp.noiseGainSmoother.skipped = stft.cfg.hopSize * stft.synths

SmootherOnFrameGrid(sm) ==
    /\ sm.skipped = stft.cfg.hopSize * hp.framesProcessed
    /\ sm.countdown > 0 =>
           (sm.stepsToTarget - sm.countdown) % stft.cfg.hopSize = 0
    /\ sm.countdown = 0 => sm.currentValue = sm.target

\* C18 amended: the samples each gain smoother was advanced by equal hopSize
\* times the number of frames processed outside debug passthrough (frames
\* handed back in debug passthrough advance nothing); a ramp in progress has
\* run a whole number of hops and ends on the target.
C18_SkipPerProcessedFrame ==
    /\ hp.framesProcessed + hp.debugFrames = stft.synths
    /\ SmootherOnFrameGrid(hp.tonalGainSmoother)
    /\ SmootherOnFrameGrid(hp.noiseGainSmoother)

\* frames went through in debug passthrough and through the mask path, and
\* a ramp is under way
C18_Witness ==
    /\ hp.debugFrames >= 1
    /\ hp.framesProcessed >= 2
    /\ hp.tonalGainSmoother.countdown > 0

\* ------------------------------------------------ MagPhaseFrame properties
\* C14: no call on the core ends with an exception, whatever its arguments
\* and whether or not the object was prepared.
C14_NothingThrows == mpf.outcome = "ok"

\* C15: fromComplex and toComplex on an unprepared frame or with a span of
\* the wrong size fail with std::invalid_argument and change nothing;
\* prepare(numBins <= 0) fails with std::invalid_argument and changes nothing.
C15_DocumentedFailures ==
    /\ (mpf.op \in {"fromComplex", "toComplex"}
        /\ (mpf.prevBins = 0 \/ mpf.arg /= mpf.prevBins)) =>
           /\ mpf.outcome = "invalid_argument"
           /\ ~mpf.changed
           /\ mpf.op = "toComplex" =>
                  mpf.span = [i \in 1 .. mpf.arg |-> ComplexZero]
    /\ (mpf.op = "prepare" /\ mpf.arg <= 0) =>
           /\ mpf.outcome = "invalid_argument"
           /\ ~mpf.changed

\* toComplex right after fromComplex of the span mpf.input
RoundTripDone == mpf.op = "toComplex" /\ mpf.outcome = "ok" /\ mpf.fresh

\* C16 as stated: the round trip returns x when |x| >= epsilon and (0,0) when
\* |x| < epsilon; after fromComplex a bin below epsilon has magnitude 0 and
\* phase 0.
C16_RoundTripFromEpsilon ==
    /\ RoundTripDone =>
           \A i \in 1 .. Len(mpf.input) :
               mpf.span[i] =
                   (IF Hypot(mpf.input[i].re, mpf.input[i].im) >= Epsilon
                    THEN mpf.input[i] ELSE ComplexZero)
    /\ (mpf.op = "fromComplex" /\ mpf.outcome = "ok") =>
           \A i \in 1 .. Len(mpf.input) :
               Hypot(mpf.input[i].re, mpf.input[i].im) < Epsilon =>
                   mpf.frame.magnitudeData[i] = 0 /\ mpf.frame.phaseData[i] = 0

\* C16 amended: the round trip returns x when |x| > epsilon and (0,0) when
\* |x| <= epsilon (a bin of magnitude exactly epsilon is snapped to silence);
\* after fromComplex a bin of magnitude at most epsilon has magnitude 0 and
\* phase 0.
C16_RoundTripAboveEpsilon ==
    /\ RoundTripDone =>
           \A i \in 1 .. Len(mpf.input) :
               mpf.span[i] =
                   (IF Hypot(mpf.input[i].re, mpf.input[i].im) > Epsilon
                    THEN mpf.input[i] ELSE ComplexZero)
    /\ (mpf.op = "fromComplex" /\ mpf.outcome = "ok") =>
           \A i \in 1 .. Len(mpf.input) :
               Hypot(mpf.input[i].re, mpf.input[i].im) <= Epsilon =>
                   mpf.frame.magnitudeData[i] = 0 /\ mpf.frame.phaseData[i] = 0

\* a round trip of a bin of magnitude exactly epsilon next to a bin above
\* epsilon
C16_Witness ==
    /\ RoundTripDone
    /\ Len(mpf.input) = 2
    /\ mpf.input[1] = [re |-> Epsilon, im |-> 0]
    /\ mpf.span[1] = ComplexZero
    /\ mpf.input[2] /= ComplexZero
    /\ mpf.span[2] = mpf.input[2]

\* ------------------------------------------------ MaskEstimator properties
\* C12: after computeMasks every bin has 0 <= tonalMask <= 1 and
\* noiseMask = 1 - tonalMask, for any finite non-negative magnitudes and any
\* separation, focus and spectral floor.
C12_MaskPairInRange ==
    est.op = "computeMasks" =>
        \A i \in 1 .. NumBins :
            /\ est.tonalMask[i] /= NaN /\ est.noiseMask[i] /= NaN
            /\ 0 <= est.tonalMask[i] /\ est.tonalMask[i] <= One
            /\ est.noiseMask[i] = One - est.tonalMask[i]

\* the estimator and the masks after feeding the frames of log to an
\* estimator that was only prepared and given the parameters params
RECURSIVE Replay(_, _)
Replay(log, params) ==
    IF log = <<>>
    THEN [est |-> EstSetSpectralFloor(
                      EstSetFocus(
                          EstSetSeparation(EstPrepare(EstNew, NumBins), params[1]),
                          params[2]),
                      params[3]),
          tonalMask |-> <<>>, noiseMask |-> <<>>]
    ELSE FeedFrame(Replay(SubSeq(log, 1, Len(log) - 1), params).est,
                   log[Len(log)])

\* C13: reset() returns all frame-to-frame state to its value right after
\* prepare() and leaves the user parameters untouched, so the masks computed
\* after a reset() are those a freshly prepared estimator computes from the
\* same frames, whatever was processed before the reset.
C13_ResetIsFreshStart ==
    /\ est.op = "reset" =>
           /\ FrameToFrameState(est.e)
                  = FrameToFrameState(EstPrepare(EstNew, NumBins))
           /\ Params(est.e) = est.paramsAtReset
    /\ (est.op = "computeMasks" /\ est.resets >= 1) =>
           LET fresh == Replay(est.log, Params(est.e))
           IN  /\ est.e = fresh.est
               /\ est.tonalMask = fresh.tonalMask
               /\ est.noiseMask = fresh.noiseMask

\* masks computed from two frames fed after a reset() that found history,
\* smoothed masks and non-default parameters in the estimator
C13_Witness ==
    /\ est.resets >= 1 /\ est.wasDirty
    /\ est.paramsAtReset /= Params(EstNew) /\ est.paramsAtReset[3] > 0
    /\ est.op = "computeMasks" /\ Len(est.log) >= 2
    /\ \E i \in 1 .. NumBins : est.tonalMask[i] \notin {NaN, One \div 2}

\* ------------------------------------------------- engine sample counters
SamplesNeeded == IF stft.isFirstFrame THEN stft.cfg.fftSize ELSE stft.cfg.hopSize
InputReadable ==
    GetReadableDistance(stft.inWrite, stft.inRead, RingSize(stft.cfg))
OutputReadable ==
    GetReadableDistance(stft.outWrite, stft.outRead, RingSize(stft.cfg))

\* C26: after every engine call samplesInInputBuffer_ is the input ring's
\* readable distance and samplesInOutputBuffer_ the output ring's, both
\* non-negative, so samplesInInputBuffer_ >= samplesNeeded with no frame
\* pending implies that a full window is readable.
C26_CountersMirrorRings ==
    /\ stft.samplesInInputBuffer >= 0 /\ stft.samplesInOutputBuffer >= 0
    /\ stft.samplesInInputBuffer = InputReadable
    /\ stft.samplesInOutputBuffer = OutputReadable
    /\ (stft.samplesInInputBuffer >= SamplesNeeded /\ ~stft.frameReady) =>
           InputReadable >= stft.cfg.fftSize

\* C26 amended: both counters are non-negative; samplesInOutputBuffer_ is
\* the output ring's readable distance; samplesInInputBuffer_ is the number
\* of samples pushed and not yet hopped over, which is the input ring's
\* readable distance as long as it is below the ring's capacity.  (After the
\* first frame samplesNeeded is hopSize, so the counter condition alone does
\* admit calls with less than a window readable; the readable-distance guard
\* refuses those.)
C26_CountersTrackStreams ==
    /\ stft.samplesInInputBuffer >= 0 /\ stft.samplesInOutputBuffer >= 0
    /\ stft.samplesInOutputBuffer = OutputReadable
    /\ stft.samplesInInputBuffer = Unread
    /\ Unread < RingSize(stft.cfg) => stft.samplesInInputBuffer = InputReadable

\* after the first frames and some output, the counter condition holds
\* with no frame pending and less than a window readable
C26_Witness ==
    /\ stft.frames >= 2 /\ stft.extracted > 0
    /\ stft.samplesInInputBuffer >= SamplesNeeded /\ ~stft.frameReady
    /\ InputReadable < stft.cfg.fftSize
    /\ stft.samplesInOutputBuffer > 0

\* --------------------------------------------- magnitude history, driven
\* updateGuides() and reset() on an estimator that was constructed and
\* prepared, long enough for the ring of HorizontalMedianSize slots to wrap.
HistoryFrames == {Tone, HugeFlat}

InitHistory ==
    /\ est = EstInit(SepOne, 0, 0)
    /\ mpf = MpfInit
    /\ stft = StftPrepare(LowLatency)
    /\ hp = HpPrepare(FALSE, SampleRate, HostBlockSize)
    /\ pc = "push" /\ bs = HostBlockSize /\ epoch = 1 /\ out = <<>>
    /\ fullSeen = FALSE /\ pos = 0 /\ lastPath = "none"
    /\ gains = <<Unity, Unity>> /\ changes = 0 /\ hist = NoHistory /\ monitor = NoMonitor
    /\ SideInit

HistoryUpdateGuides(magnitudes) ==
    /\ est.frames < MaxGuides
    /\ est' = [est EXCEPT !.e = UpdateGuides(est.e, magnitudes),
                          !.op = "updateGuides",
                          !.frames = @ + 1,
                          !.log = Append(@, magnitudes)]
    /\ UNCHANGED maskRest

HistoryReset ==
    /\ est.resets < MaxResets
    /\ est' = [est EXCEPT !.e = EstReset(est.e),
                          !.op = "reset",
                          !.resets = @ + 1,
                          !.log = <<>>]
    /\ UNCHANGED maskRest

NextHistory ==
    \/ \E m \in HistoryFrames : HistoryUpdateGuides(m)
    \/ HistoryReset

SpecHistory == InitHistory /\ [][NextHistory]_vars

\* ----------------------------------------------- magnitude history ring
\* the k-th of the last HorizontalMedianSize frames fed since prepare() or
\* reset(), oldest first (k from 0), a zero frame where fewer were fed
LastFrames(k) ==
    LET idx == Len(est.log) - HorizontalMedianSize + k + 1
    IN  IF idx >= 1 THEN est.log[idx] ELSE Fill(NumBins, 0)

\* C27: after n updateGuides calls since prepare()/reset(),
\* historyWriteIndex = n mod 9 and designates the slot of the oldest frame;
\* getCurrentFrame() is the frame of the latest call; getHistoryFrame(0..8)
\* lists the last 9 frames oldest first, zero frames for slots not yet
\* written; the horizontal median of each bin is taken over these 9 frames.
C27_HistoryRing ==
    LET e == est.e
        n == Len(est.log)
    IN  /\ e.historyWriteIndex = n % HorizontalMedianSize
        /\ e.magnitudeHistoryData[e.historyWriteIndex] = LastFrames(0)
        /\ n >= 1 => GetCurrentFrame(e) = est.log[n]
        /\ \A k \in 0 .. HorizontalMedianSize - 1 :
               GetHistoryFrame(e, k) = LastFrames(k)
        /\ est.op = "updateGuides" =>
               \A bin \in 1 .. NumBins :
                   e.horizontalGuide[bin] =
                       ComputeMedian([k \in 1 .. HorizontalMedianSize |->
                                         LastFrames(k - 1)[bin]])

\* the ring has wrapped: more than 9 frames since the last reset(), the
\* overwritten frame different from the one that replaced it
C27_Witness ==
    /\ est.op = "updateGuides"
    /\ est.resets = 1
    /\ Len(est.log) = HorizontalMedianSize + 1
    /\ est.log[1] /= est.log[HorizontalMedianSize + 1]
    /\ est.e.historyWriteIndex = 1
    /\ est.e.horizontalGuide /= est.e.verticalGuide

\* ------------------------------------------- frame effect of processBlock
\* the bypass delay line of a coordinator: buffer and both cursors
BypassLine(h) == <<h.bypassBuffer, h.bypassWritePos, h.bypassReadPos>>
\* a coordinator with the bypass delay line of another
WithBypassLine(h, from) ==
    [h EXCEPT !.bypassBuffer = from.bypassBuffer,
              !.bypassWritePos = from.bypassWritePos,
              !.bypassReadPos = from.bypassReadPos]
\* the step is a processBlock call
BlockStep == pos' > pos

FastPathStep ==
    (BlockStep /\ lastPath' \in {"bypass", "unity"}) =>
        /\ stft' = stft
        /\ hp' = WithBypassLine(hp, hp')
        /\ lastPath' = "bypass" =>
               /\ Len(monitor'.tonal) = pos' - pos
               /\ Len(monitor'.noise) = pos' - pos
               /\ \A i \in 1 .. pos' - pos :
                      /\ monitor'.tonal[i] = MonitorSample(Exact(Zero), 1, 1)
                      /\ monitor'.noise[i] = MonitorSample(Exact(Zero), 1, 1)
FullPipelineStep ==
    (BlockStep /\ lastPath' = "full") => BypassLine(hp') = BypassLine(hp)

\* C25: a processBlock call on the bypass or the unity-gain branch changes
\* only the bypass delay line and the caller's buffers: the STFT engine, the
\* mask estimator state and both gain smoothers stay as they were, and the
\* bypass branch fills the tonal and noise buffers with zeros; a call that
\* runs the full pipeline leaves the bypass delay line as it was.
C25_FastPathFrameEffect == [][FastPathStep /\ FullPipelineStep]_vars

\* a bypassed block after blocks that ran the full pipeline and produced
\* frames, with samples waiting in the engine and the smoothers mid-ramp
C25_Witness ==
    /\ lastPath = "bypass"
    /\ "full" \in hist.paths
    /\ hp.framesProcessed >= 1
    /\ stft.samplesInInputBuffer > 0
    /\ hp.tonalGainSmoother.countdown > 0
    /\ monitor.tonal /= <<>>

\* ------------------------------------------------------- monitor outputs
\* C30: after a processBlock call that ran the full pipeline the share
\* factors tonalGain / (tonalGain + noiseGain) and
\* noiseGain / (tonalGain + noiseGain) are finite and sum to 1, so that
\* tonalBuffer[i] + noiseBuffer[i] = outputBuffer[i], with no division by
\* zero, also when both smoothed gains are 0.
C30_MonitorSharesDefined ==
    (lastPath = "full" /\ monitor.tonal /= <<>>) =>
        \A i \in 1 .. Len(monitor.tonal) :
            /\ monitor.tonal[i].den /= 0 /\ monitor.noise[i].den /= 0
            /\ monitor.tonal[i].of = out[i] /\ monitor.noise[i].of = out[i]
            /\ monitor.tonal[i].den = monitor.noise[i].den
            /\ monitor.tonal[i].num + monitor.noise[i].num = monitor.tonal[i].den

\* ------------------------------------------------- HPSSProcessor driven
\* One action per public call on an HPSSProcessor that may be constructed in
\* either mode and given parameters before prepare().
BlockSizes == {256 \div 128, 512 \div 128}
FloorValues == {0, One \div 2}
SeparationValues == {(3 * SepOne) \div 4, SepOne}
FocusValues == {0, One}
qualityRest == <<stft, pc, bs, epoch, out, fullSeen, hp, pos, lastPath, gains,
                 changes, hist, mpf, est, monitor, plugin, lim, gui>>

InitQuality ==
    /\ \E lowLatency \in BOOLEAN : proc = PrNew(lowLatency)
    /\ plugin = PluginNew /\ lim = LimNew /\ gui = GuiNew
    /\ mpf = MpfInit
    /\ est = EstInit(SepOne, 0, 0)
    /\ stft = StftPrepare(LowLatency)
    /\ hp = HpPrepare(FALSE, SampleRate, HostBlockSize)
    /\ pc = "push" /\ bs = HostBlockSize /\ epoch = 1 /\ out = <<>>
    /\ fullSeen = FALSE /\ pos = 0 /\ lastPath = "none"
    /\ gains = <<Unity, Unity>> /\ changes = 0 /\ hist = NoHistory
    /\ monitor = NoMonitor

QualityPrepare(maxBlockSize) ==
    /\ changes < MaxCalls
    /\ proc' = PrPrepare(proc, SampleRate, maxBlockSize)
    /\ changes' = changes + 1
    /\ pos' = 0
    /\ lastPath' = "prepare"
    /\ UNCHANGED <<stft, pc, bs, epoch, out, fullSeen, hp, gains, hist, mpf,
                   est, monitor, plugin, lim, gui>>

QualitySetQualityMode(highQuality) ==
    /\ changes < MaxCalls
    /\ proc' = PrSetQualityMode(proc, highQuality)
    /\ changes' = changes + 1
    /\ lastPath' = IF proc.isInitialized /\ proc.useHighQuality /= highQuality
                   THEN "rebuild" ELSE "setQualityMode"
    /\ UNCHANGED <<stft, pc, bs, epoch, out, fullSeen, hp, pos, gains, hist,
                   mpf, est, monitor, plugin, lim, gui>>

QualitySetParameter(name, value) ==
    /\ changes < MaxCalls
    /\ proc' = (CASE name = "separation" -> PrSetSeparation(proc, value)
                  [] name = "focus" -> PrSetFocus(proc, value)
                  [] name = "spectralFloor" -> PrSetSpectralFloor(proc, value))
    /\ proc' /= proc
    /\ changes' = changes + 1
    /\ lastPath' = "set"
    /\ UNCHANGED <<stft, pc, bs, epoch, out, fullSeen, hp, pos, gains, hist,
                   mpf, est, monitor, plugin, lim, gui>>

QualitySetBypass(shouldBypass) ==
    /\ changes < MaxCalls
    /\ PrFlags(proc).bypassEnabled /= shouldBypass
    /\ proc' = PrSetBypass(proc, shouldBypass)
    /\ changes' = changes + 1
    /\ lastPath' = "set"
    /\ UNCHANGED <<stft, pc, bs, epoch, out, fullSeen, hp, pos, gains, hist,
                   mpf, est, monitor, plugin, lim, gui>>

QualityReset ==
    /\ changes < MaxCalls
    /\ proc.isInitialized
    /\ proc' = PrReset(proc)
    /\ changes' = changes + 1
    /\ pos' = 0
    /\ lastPath' = "reset"
    /\ UNCHANGED <<stft, pc, bs, epoch, out, fullSeen, hp, gains, hist, mpf,
                   est, monitor, plugin, lim, gui>>

\* processBlock() with a full host block and the gains unchanged at 0.5, 1.0
QualityProcessBlock ==
    /\ proc.isInitialized
    /\ pos + proc.currentBlockSize <= MaxQualityPos
    /\ proc' = PrProcessBlock(proc,
                              InputBlock(changes + 1, pos, proc.currentBlockSize),
                              Unity \div 2, Unity)
    /\ pos' = pos + proc.currentBlockSize
    /\ lastPath' = PathOf(proc.h, Unity \div 2, Unity)
    /\ UNCHANGED <<stft, pc, bs, epoch, out, fullSeen, hp, gains, changes,
                   hist, mpf, est, monitor, plugin, lim, gui>>

NextQuality ==
    \/ \E b \in BlockSizes : QualityPrepare(b)
    \/ \E q \in BOOLEAN : QualitySetQualityMode(q)
    \/ \E v \in SeparationValues : QualitySetParameter("separation", v)
    \/ \E v \in FocusValues : QualitySetParameter("focus", v)
    \/ \E v \in FloorValues : QualitySetParameter("spectralFloor", v)
    \/ \E b \in BOOLEAN : QualitySetBypass(b)
    \/ QualityReset
    \/ QualityProcessBlock

SpecQuality == InitQuality /\ [][NextQuality]_vars

\* ----------------------------------------- quality-mode reconfiguration
\* C21: on a prepared HPSSProcessor, after any prepare(), setQualityMode(),
\* reset() and processBlock calls, the latency is fftSize - hopSize of the
\* active configuration (768 or 1536 samples), numBins_ = fftSize / 2 + 1 is
\* the size of both mask buffers and the bin count of the MagPhaseFrame and
\* of the MaskEstimator, the bypass buffer holds latency + maxBlockSize
\* samples with its write cursor latency ahead of its read cursor, and right
\* after a switch the STFT engine and the mask estimator are as after
\* reset().
C21_SizesFollowQualityMode ==
    proc.isInitialized =>
        LET cfg == ConfigOf(proc.useHighQuality)
            latency == PrGetLatencyInSamples(proc)
        IN  /\ proc.s.cfg = cfg
            /\ latency = cfg.fftSize - cfg.hopSize
            /\ latency = (IF proc.useHighQuality THEN 1536 ELSE 768) \div 128
            /\ proc.numBins = (cfg.fftSize * 128) \div 2 + 1
            /\ proc.tonalMaskBufferSize = proc.numBins
            /\ proc.noiseMaskBufferSize = proc.numBins
            /\ proc.magPhaseFrameBins = proc.numBins
            /\ proc.maskEstimator.numBins = proc.numBins
            /\ BypassSize(proc.h) = latency + proc.currentBlockSize
            /\ (proc.h.bypassWritePos - proc.h.bypassReadPos) % BypassSize(proc.h)
                   = latency
            /\ lastPath = "rebuild" =>
                   /\ proc.s = StftReset(proc.s)
                   /\ proc.h.mask = MaskPrepare

\* a switch to high quality on a processor that has processed frames and
\* moved its bypass cursors
C21_Witness ==
    /\ lastPath = "rebuild"
    /\ proc.useHighQuality
    /\ proc.h.framesProcessed >= 1
    /\ pos >= LowLatency.fftSize
    /\ proc.currentBlockSize = 256 \div 128

\* C22: at every point after prepare() the mask estimator in use holds the
\* separation, focus and spectral floor stored in the coordinator, also when
\* prepare() came after the setters and after setQualityMode() rebuilt the
\* estimator.
C22_EstimatorHasStoredParameters ==
    proc.isInitialized => PrEstimatorParams(proc) = PrStoredParams(proc)

\* ------------------------------------------ UnravelAudioProcessor driven
\* The host's calls on the plug-in: prepareToPlay, parameter changes and
\* processBlock with one full block per channel.
pluginRest == <<stft, pc, bs, epoch, out, fullSeen, hp, gains, hist, mpf,
                est, monitor, proc, lim, gui>>

InitPlugin ==
    /\ plugin = PluginNew
    /\ proc = PrNew(TRUE) /\ lim = LimNew /\ gui = GuiNew
    /\ mpf = MpfInit
    /\ est = EstInit(SepOne, 0, 0)
    /\ stft = StftPrepare(LowLatency)
    /\ hp = HpPrepare(FALSE, SampleRate, HostBlockSize)
    /\ pc = "push" /\ bs = HostBlockSize /\ epoch = 1 /\ out = <<>>
    /\ fullSeen = FALSE /\ pos = 0 /\ lastPath = "none"
    /\ gains = <<Unity, Unity>> /\ changes = 0 /\ hist = NoHistory
    /\ monitor = NoMonitor

PluginPrepareToPlay(samplesPerBlock) ==
    /\ changes < MaxCalls
    /\ plugin' = PrepareToPlay(plugin, SampleRate, samplesPerBlock, NumChannels)
    /\ changes' = changes + 1
    /\ pos' = 0
    /\ lastPath' = "prepareToPlay"
    /\ UNCHANGED pluginRest

\* the host or the editor moves a parameter
PluginSetParameter(name, value) ==
    /\ changes < MaxCalls
    /\ plugin.parameters[name] /= value
    /\ plugin' = [plugin EXCEPT !.parameters[name] = value]
    /\ changes' = changes + 1
    /\ lastPath' = "parameter"
    /\ UNCHANGED <<pos, pluginRest>>

PluginBlock ==
    /\ plugin.channelProcessors /= <<>>
    /\ LET n == plugin.channelProcessors[1].currentBlockSize
       IN  /\ pos + n <= MaxQualityPos
           /\ plugin' = PluginProcessBlock(plugin,
                            [ch \in 1 .. NumChannels |-> InputBlock(ch, pos, n)])
           /\ pos' = pos + n
    /\ lastPath' = "processBlock"
    /\ UNCHANGED <<changes, pluginRest>>

NextPlugin ==
    \/ \E b \in BlockSizes : PluginPrepareToPlay(b)
    \/ \E q \in BOOLEAN : PluginSetParameter("quality", q)
    \/ \E b \in BOOLEAN : PluginSetParameter("bypass", b)
    \/ \E v \in FloorValues : PluginSetParameter("spectralFloor", v)
    \/ PluginBlock

SpecPlugin == InitPlugin /\ [][NextPlugin]_vars

\* ---------------------------------------------------- plug-in properties
\* C23: after prepareToPlay() and after every processBlock() the latency
\* last passed to setLatencySamples() is getLatencyInSamples() of every
\* channel processor, also right after a quality switch, and all channel
\* processors are in the same quality mode.
C23_ReportedLatencyTracksProcessors ==
    \A ch \in DOMAIN plugin.channelProcessors :
        /\ plugin.latencySamples
               = PrGetLatencyInSamples(plugin.channelProcessors[ch])
        /\ plugin.channelProcessors[ch].useHighQuality
               = plugin.channelProcessors[1].useHighQuality

\* a block in which the quality parameter took the processors from high
\* quality back to low latency
C23_Witness ==
    /\ lastPath = "processBlock"
    /\ ~plugin.parameters.quality
    /\ ~plugin.currentQualityMode
    /\ Len(plugin.channelProcessors) = NumChannels
    /\ ~plugin.channelProcessors[NumChannels].useHighQuality
    /\ plugin.latencySamples = 768 \div 128
    /\ changes >= 2

\* C24: once updateParameters() has run (at the end of prepareToPlay() and
\* in every processBlock()), every channel processor's isHighQuality() is
\* the quality parameter and currentQualityMode, also after a second
\* prepareToPlay().
C24_QualityInSync ==
    lastPath \in {"prepareToPlay", "processBlock"} =>
        \A ch \in DOMAIN plugin.channelProcessors :
            /\ plugin.channelProcessors[ch].useHighQuality
                   = plugin.parameters.quality
            /\ plugin.currentQualityMode = plugin.parameters.quality

\* ------------------------------------------------- safety limiter driven
\* Samples reaching the end of processBlock on each of its branches, in
\* thousandths of full scale, with the limiter and debug passthrough
\* switched by their setters.
LimiterSamples ==
    {-100000, -2000, -1000, -950, -892, -891, -500, 0, 1, 500, 890, 891, 892,
     950, 990, 1000, 1016, 2000, 100000}
limiterRest == <<stft, pc, bs, epoch, out, fullSeen, hp, pos, lastPath, gains,
                 changes, hist, mpf, est, monitor, proc, plugin, gui>>

InitLimiter ==
    /\ lim = LimNew
    /\ proc = PrNew(TRUE) /\ plugin = PluginNew /\ gui = GuiNew
    /\ mpf = MpfInit
    /\ est = EstInit(SepOne, 0, 0)
    /\ stft = StftPrepare(LowLatency)
    /\ hp = HpPrepare(FALSE, SampleRate, HostBlockSize)
    /\ pc = "push" /\ bs = HostBlockSize /\ epoch = 1 /\ out = <<>>
    /\ fullSeen = FALSE /\ pos = 0 /\ lastPath = "none"
    /\ gains = <<Unity, Unity>> /\ changes = 0 /\ hist = NoHistory
    /\ monitor = NoMonitor

LimiterSetSafetyLimiting(enabled) ==
    /\ lim.safetyLimitingEnabled /= enabled
    /\ lim' = [lim EXCEPT !.safetyLimitingEnabled = enabled, !.path = "none",
                          !.x = 0, !.output = 0]
    /\ UNCHANGED limiterRest

LimiterSetDebugPassthrough(enabled) ==
    /\ lim.debugPassthroughEnabled /= enabled
    /\ lim' = [lim EXCEPT !.debugPassthroughEnabled = enabled, !.path = "none",
                          !.x = 0, !.output = 0]
    /\ UNCHANGED limiterRest

\* processBlock() taking the branch path with x as the sample that reaches
\* its end
LimiterProcessBlock(x, path) ==
    /\ lim' = [lim EXCEPT !.x = x, !.path = path,
                          !.output = OutputSample(x, path, lim.safetyLimitingEnabled,
                                                  lim.debugPassthroughEnabled)]
    /\ UNCHANGED limiterRest

NextLimiter ==
    \/ \E e \in BOOLEAN : LimiterSetSafetyLimiting(e)
    \/ \E e \in BOOLEAN : LimiterSetDebugPassthrough(e)
    \/ \E x \in LimiterSamples, path \in {"bypass", "unity", "full"} :
           LimiterProcessBlock(x, path)

SpecLimiter == InitLimiter /\ [][NextLimiter]_vars

viewsRest == <<stft, pc, bs, epoch, out, fullSeen, hp, pos, lastPath, gains,
               changes, hist, mpf, est, monitor, proc, plugin, lim>>

InitViews ==
    /\ gui = GuiNew
    /\ proc = PrNew(TRUE) /\ plugin = PluginNew /\ lim = LimNew
    /\ mpf = MpfInit
    /\ est = EstInit(SepOne, 0, 0)
    /\ stft = StftPrepare(LowLatency)
    /\ hp = HpPrepare(FALSE, SampleRate, HostBlockSize)
    /\ pc = "push" /\ bs = HostBlockSize /\ epoch = 1 /\ out = <<>>
    /\ fullSeen = FALSE /\ pos = 0 /\ lastPath = "none"
    /\ gains = <<Unity, Unity>> /\ changes = 0 /\ hist = NoHistory
    /\ monitor = NoMonitor

\* updateParameters(): a changed quality parameter rebuilds the components
\* of every processor
ViewsUpdateParameters(g) ==
    IF g.quality /= g.currentQualityMode /\ g.storage > 0
    THEN [g EXCEPT !.currentQualityMode = g.quality, !.storage = @ + 1,
                   !.numBins = NumBinsOf(ConfigOf(g.quality))]
    ELSE [g EXCEPT !.currentQualityMode = g.quality]

\* prepareToPlay() between blocks and between timer callbacks: new
\* processors, then updateParameters()
ViewsPrepareToPlay ==
    /\ gui.audio = "idle"
    /\ gui.timer = "idle"
    /\ gui.changes < MaxChanges
    /\ gui' = ViewsUpdateParameters([gui EXCEPT !.storage = @ + 1,
                                                !.numBins = NumBinsOf(LowLatency),
                                                !.changes = @ + 1])
    /\ UNCHANGED viewsRest

ViewsSetQuality(q) ==
    /\ gui.quality /= q
    /\ gui.changes < MaxChanges
    /\ gui' = [gui EXCEPT !.quality = q, !.changes = @ + 1]
    /\ UNCHANGED viewsRest

AudioBlockBegin ==
    /\ gui.audio = "idle"
    /\ gui.storage > 0
    /\ gui.blocks < MaxViewBlocks
    /\ gui' = [gui EXCEPT !.audio = "updateParameters"]
    /\ UNCHANGED viewsRest

AudioUpdateParameters ==
    /\ gui.audio = "updateParameters"
    /\ gui' = [ViewsUpdateParameters(gui) EXCEPT !.audio = "frames"]
    /\ UNCHANGED viewsRest

\* the frame loop: fromComplex and computeMasks write the arrays
AudioFrames ==
    /\ gui.audio = "frames"
    /\ gui' = [gui EXCEPT !.audio = "output"]
    /\ UNCHANGED viewsRest

AudioBlockEnd ==
    /\ gui.audio = "output"
    /\ gui' = [gui EXCEPT !.audio = "idle", !.blocks = @ + 1]
    /\ UNCHANGED viewsRest

\* timerCallback() up to the three getters: returns early without bins
TimerGetViews ==
    /\ gui.timer = "idle"
    /\ gui.storage > 0
    /\ gui' = [gui EXCEPT !.timer = "reading", !.span = gui.storage,
                          !.cachedNumBins = gui.numBins]
    /\ UNCHANGED viewsRest

\* the smoothing loops over the three spans, then repaint()
TimerReadViews ==
    /\ gui.timer = "reading"
    /\ gui' = [gui EXCEPT !.timer = "idle", !.span = 0]
    /\ UNCHANGED viewsRest

NextViews ==
    \/ ViewsPrepareToPlay
    \/ \E q \in BOOLEAN : ViewsSetQuality(q)
    \/ AudioBlockBegin
    \/ AudioUpdateParameters
    \/ AudioFrames
    \/ AudioBlockEnd
    \/ TimerGetViews
    \/ TimerReadViews

SpecViews == InitViews /\ [][NextViews]_vars

\* C28: the timer callback reads the magnitude and mask views only while no
\* processBlock, setQualityMode or prepareToPlay runs on another thread: no
\* view is read while the audio thread writes the arrays or after the
\* storage behind it was resized or replaced.
C28_ViewsReadBetweenBlocks ==
    gui.timer = "reading" =>
        /\ gui.audio = "idle"
        /\ gui.span = gui.storage
        /\ gui.cachedNumBins = gui.numBins

====
